---- MODULE Spec2Model ----
(***************************************************************************)
(* Tab-data aggregation and webkit bridge of the privacy dashboard         *)
(* (macOS integration module).  The module-level variables of the source   *)
(* are the state; every window.* entry point and every internal API call   *)
(* is one action that runs to completion (single-threaded event loop).     *)
(***************************************************************************)
EXTENDS Integers, Sequences, FiniteSets, TLC

(***************************************************************************)
(* Bounds of the exploration.                                              *)
(***************************************************************************)
MaxPromises == 2
MaxConsentUpdates == 2
MaxCalls == 6
MaxSessionCalls == 8
MaxListItems == 2
MaxRequests == 2
MaxSiteEvents == 7
MaxTeardowns == 3
MaxSubviews == 2
MaxRefreshes == 4

(***************************************************************************)
(* JavaScript values.  Every value carries its typeof tag so that the      *)
(* typeof tests and truthiness tests of the source can be evaluated.       *)
(***************************************************************************)
Undefined == [type |-> "undefined"]
JSBool(b) == [type |-> "boolean", val |-> b]
JSString(s) == [type |-> "string", val |-> s]
JSObject(o) == [type |-> "object", val |-> o]
JSNull == [type |-> "null"]

typeof(v) == IF v.type = "null" THEN "object" ELSE v.type

Truthy(v) ==
    CASE v.type = "undefined" -> FALSE
      [] v.type = "null" -> FALSE
      [] v.type = "boolean" -> v.val
      [] v.type = "string" -> v.val /= ""
      [] OTHER -> TRUE

EmptyObject == [k \in {} |-> Undefined]

\* Object.assign(target, source) on plain objects (maps from keys to values)
ObjectAssign(target, source) ==
    [k \in (DOMAIN target) \cup (DOMAIN source) |->
        IF k \in DOMAIN source THEN source[k] ELSE target[k]]

Range(s) == {s[i] : i \in DOMAIN s}

(***************************************************************************)
(* Results of schema.safeParse: the parsed data, or a failure.             *)
(***************************************************************************)
ParseSuccess(d) == [success |-> TRUE, data |-> d]
ParseFailure == [success |-> FALSE]

(***************************************************************************)
(* Inputs the host can deliver.                                            *)
(***************************************************************************)
TabUrls == {"https://a.example", "https://b.example"}
RequestDataInputs == {ParseSuccess("requests1"), ParseSuccess("requests2"), ParseFailure}
ProtectionInputs == {ParseSuccess("p1"), ParseSuccess("p2"), ParseFailure}
LocaleInputs == {ParseSuccess([locale |-> "en"]), ParseSuccess([locale |-> "fr"]), ParseFailure}
ConsentData ==
    { [consentManaged |-> TRUE],
      [consentManaged |-> FALSE],
      [cosmetic |-> TRUE],
      [consentManaged |-> TRUE, cosmetic |-> FALSE] }
ConsentInputs == {ParseSuccess(c) : c \in ConsentData} \cup {ParseFailure}
UpgradedHttpsInputs == {JSBool(TRUE), JSBool(FALSE)}
PermissionInputs == {JSObject("camera"), Undefined}
CertificateInputs ==
    { [secCertificateViewModels |-> JSObject("cert")],
      [secCertificateViewModels |-> Undefined] }
PendingInputs == {JSBool(TRUE)}
ParentEntityInputs == {JSObject("entity")}

VARIABLES
    channel,                       \* null or the registered background model
    getBackgroundTabDataPromises,  \* array of queued resolvers (promise ids)
    trackerBlockingData,
    permissionsData,
    certificateData,
    upgradedHttps,
    protections,
    isPendingUpdates,
    parentEntity,
    cookiePromptManagementStatus,  \* the one shared accumulator object
    locale,
    promises,      \* the promise objects created by getBackgroundTabData
    lastCall,      \* the call that ran last and how it ended
    invoked,       \* resolvers invoked during the last call, in order
    sent,          \* updateTabData notifications sent during the last call
    consentLog,    \* history: parsed data of the valid consent updates
    prevDelivery,  \* history: the request-data delivery before the last one
    lastDelivery,  \* history: the last request-data delivery
    calls,         \* number of calls made so far in this session
    sessionLength, \* number of calls the explored session may make
    messageHandlers,  \* window.webkit?.messageHandlers: present, and which
    isIOS,            \* result of isIOS() in this webview
    posted,           \* messages posted to webkit during the last call
    bridgeCall,       \* the bridge call that ran last and how it ended
    onGetToggleReportOptionsResponse,  \* window property: 0 or the request
                                       \* whose reply handler it holds
    toggleRequests,   \* promises of privacyDashboardGetToggleReportOptions
    continued,        \* promises whose then-callback has run
    siteView,         \* the Site view, its model and the body classes
    slidingSubview,   \* a sliding subview, the location and its timers
    emailProtection   \* the email protection model

aggregator ==
    <<trackerBlockingData, permissionsData, certificateData, upgradedHttps,
      protections, isPendingUpdates, parentEntity,
      cookiePromptManagementStatus, locale, getBackgroundTabDataPromises>>

history == <<consentLog, prevDelivery, lastDelivery>>

bridge ==
    <<messageHandlers, isIOS, posted, bridgeCall,
      onGetToggleReportOptionsResponse, toggleRequests>>

views == <<siteView, slidingSubview, emailProtection>>

vars ==
    <<channel, getBackgroundTabDataPromises, trackerBlockingData,
      permissionsData, certificateData, upgradedHttps, protections,
      isPendingUpdates, parentEntity, cookiePromptManagementStatus, locale,
      promises, lastCall, invoked, sent, consentLog, prevDelivery,
      lastDelivery, calls, sessionLength, messageHandlers, isIOS, posted,
      bridgeCall, onGetToggleReportOptionsResponse, toggleRequests,
      continued, siteView, slidingSubview, emailProtection>>

Null == "null"
NoDelivery == [made |-> FALSE]

\* the snapshot holds the accumulator object itself, not a copy of it
CookieRef == [type |-> "ref", val |-> "cookiePromptManagementStatus"]

\* createTabData(tabUrl, upgradedHttps, protections, requestData.data)
createTabData(tabUrl, upgraded, prot, data) ==
    JSObject([url |-> JSString(tabUrl),
              upgradedHttps |-> upgraded,
              protections |-> prot,
              requestDetails |-> JSObject(data)])

combineSources ==
    [tab |->
        ObjectAssign(
            ObjectAssign(
                ObjectAssign(
                    ObjectAssign(EmptyObject,
                        IF Truthy(trackerBlockingData)
                            THEN trackerBlockingData.val ELSE EmptyObject),
                    [isPendingUpdates |-> isPendingUpdates,
                     parentEntity |-> parentEntity,
                     cookiePromptManagementStatus |-> CookieRef,
                     platformLimitations |-> JSBool(TRUE),
                     locale |-> locale]),
                IF Truthy(permissionsData)
                    THEN [permissions |-> permissionsData] ELSE EmptyObject),
            IF Truthy(certificateData)
                THEN [certificate |-> certificateData] ELSE EmptyObject)]

\* what a holder of the snapshot reads from it now: the reference to the
\* accumulator is followed to the accumulator's current content
Content(snapshot) ==
    [tab |-> [k \in DOMAIN snapshot.tab |->
        IF snapshot.tab[k] = CookieRef
            THEN JSObject(cookiePromptManagementStatus)
            ELSE snapshot.tab[k]]]

\* resolve(value) of a promise: only the first call settles it
\* (delivered and ready record what the value was, and whether the four
\* required fields were all set, when it was handed over)
Resolve(p, value, content, ready) ==
    IF p.state = "pending"
        THEN [state |-> "fulfilled", value |-> value, delivered |-> content,
              ready |-> ready]
        ELSE p

Pending == [state |-> "pending"]

isReady ==
    /\ typeof(locale) = "string"
    /\ typeof(upgradedHttps) = "boolean"
    /\ typeof(protections) /= "undefined"
    /\ typeof(trackerBlockingData) = "object"

\* channel?.send('updateTabData')
channelSend == IF channel = Null THEN 0 ELSE 1

\* runs after the caller's assignments: reads the new values
resolveInitialRender ==
    IF ~isReady'
        THEN /\ UNCHANGED promises
             /\ invoked' = << >>
             /\ sent' = 0
        ELSE /\ promises' =
                    [i \in DOMAIN promises |->
                        IF i \in Range(getBackgroundTabDataPromises)
                            THEN Resolve(promises[i], combineSources',
                                         Content(combineSources)', isReady')
                            ELSE promises[i]]
             /\ invoked' = getBackgroundTabDataPromises
             /\ sent' = channelSend

\* one more call of the session, within the explored session length
Called ==
    /\ calls < sessionLength
    /\ calls' = calls + 1
    /\ UNCHANGED <<sessionLength, bridge, continued, views>>

(***************************************************************************)
(* The webkit bridge: window.webkit.messageHandlers.*.postMessage          *)
(***************************************************************************)
JSNumber(n) == [type |-> "number", val |-> n]

AllHandlers ==
    {"privacyDashboardSetProtection", "privacyDashboardSetPermission",
     "privacyDashboardGetToggleReportOptions",
     "privacyDashboardSendToggleReport", "privacyDashboardRejectToggleReport",
     "privacyDashboardSeeWhatIsSent", "privacyDashboardClose",
     "privacyDashboardOpenUrlInNewTab", "privacyDashboardOpenSettings",
     "privacyDashboardSubmitBrokenSiteReport", "privacyDashboardSetSize"}

\* window.webkit as the host installs it / as the integration tests mock it /
\* not installed at all
MacHandlers == [present |-> TRUE, handlers |-> AllHandlers]
MockedHandlers ==
    [present |-> TRUE,
     handlers |-> {"privacyDashboardShowReportBrokenSite",
                   "privacyDashboardOpenUrlInNewTab",
                   "privacyDashboardSubmitBrokenSiteReport"}]
NoHandlers == [present |-> FALSE, handlers |-> {}]
Webviews == {MacHandlers, MockedHandlers, NoHandlers}

BridgeCall(op, arg, outcome) == [op |-> op, arg |-> arg, outcome |-> outcome]

Done(threw, messages) == [threw |-> threw, posted |-> messages]

\* posting through optional chaining: nothing happens without the handler
postMessage_optional(handler, payload) ==
    IF messageHandlers.present /\ handler \in messageHandlers.handlers
        THEN Done(FALSE, << [handler |-> handler, payload |-> payload] >>)
        ELSE Done(FALSE, << >>)

\* invariant(window.webkit?.messageHandlers...) followed by
\* window.webkit.messageHandlers.<handler>.postMessage(payload): an error
\* unless the handler object is there
postMessage(handler, payload) ==
    IF messageHandlers.present /\ handler \in messageHandlers.handlers
        THEN Done(FALSE, << [handler |-> handler, payload |-> payload] >>)
        ELSE Done(TRUE, << >>)

privacyDashboardSetProtection(params) ==
    postMessage("privacyDashboardSetProtection", params)

privacyDashboardSetPermission(params) ==
    postMessage("privacyDashboardSetPermission", params)

privacyDashboardSendToggleReport ==
    postMessage("privacyDashboardSendToggleReport", EmptyObject)

privacyDashboardRejectToggleReport ==
    postMessage("privacyDashboardRejectToggleReport", EmptyObject)

privacyDashboardSeeWhatIsSent ==
    postMessage("privacyDashboardSeeWhatIsSent", EmptyObject)

privacyDashboardClose(args) ==
    postMessage("privacyDashboardClose", args)

privacyDashboardOpenUrlInNewTab(args) ==
    postMessage("privacyDashboardOpenUrlInNewTab", [url |-> args.url])

privacyDashboardOpenSettings(args) ==
    postMessage("privacyDashboardOpenSettings", [target |-> args.target])

\* the report posted with its category in both fields
privacyDashboardSubmitBrokenSiteReport_categoryTwice(report) ==
    postMessage("privacyDashboardSubmitBrokenSiteReport",
                [category |-> report.category,
                 description |-> report.category])

privacyDashboardSubmitBrokenSiteReport(report) ==
    postMessage("privacyDashboardSubmitBrokenSiteReport",
                [category |-> report.category,
                 description |-> report.description])

Call(op, success, threw) == [op |-> op, success |-> success, threw |-> threw]

\* a call of an entry point that stores what it is given, as it is given
Delivery(op, data) ==
    [op |-> op, success |-> TRUE, threw |-> FALSE, data |-> data]

InitAggregator(length) ==
    /\ channel = Null
    /\ getBackgroundTabDataPromises = << >>
    /\ trackerBlockingData = Undefined
    /\ permissionsData = Undefined
    /\ certificateData = Undefined
    /\ upgradedHttps = Undefined
    /\ protections = Undefined
    /\ isPendingUpdates = Undefined
    /\ parentEntity = Undefined
    /\ cookiePromptManagementStatus = EmptyObject
    /\ locale = Undefined
    /\ promises = << >>
    /\ lastCall = Call("init", TRUE, FALSE)
    /\ invoked = << >>
    /\ sent = 0
    /\ consentLog = << >>
    /\ prevDelivery = NoDelivery
    /\ lastDelivery = NoDelivery
    /\ calls = 0
    /\ sessionLength = length
    /\ continued = {}

\* no bridge call made yet, in a webview with the given environment
InitWebview(handlers, ios) ==
    /\ messageHandlers = handlers
    /\ isIOS = ios
    /\ posted = << >>
    /\ bridgeCall = BridgeCall("init", "none", "returned")
    /\ onGetToggleReportOptionsResponse = 0
    /\ toggleRequests = << >>

\* function Site (ops): the constructor stores its options and asks the
\* model for the tab data; nothing is rendered or bound yet
Site ==
    [ promise |-> "pending",  \* of this.model.getBackgroundTabData()
      tab |-> "none",         \* model.tab: none, or its status
      domain |-> "",          \* model.domain
      disabled |-> FALSE,     \* model.disabled
      body |-> {},            \* classes of the body element
      rendered |-> 0,         \* calls of Parent.call(this, ops)
      rerendered |-> 0,       \* calls of this._rerender()
      setups |-> 0,           \* calls of this._setup()
      unbinds |-> 0,          \* calls of this.unbindEvents()
      timers |-> 0,           \* pending setTimeout(rerender, 750)
      scheduled |-> 0,        \* deferred rerenders scheduled so far
      logged |-> 0,           \* errors logged by the catch handler
      toggleTimers |-> 0,     \* pending setTimeout(toggleAllowlist, 250)
      toggles |-> 0,          \* calls of model.toggleAllowlist()
      subviews |-> 0,         \* sliding subviews opened
      events |-> 0,           \* events handled so far
      last |-> [op |-> "Site", rerender |-> FALSE] ]

\* no sliding subview constructed yet: the location has no 'open'
\* parameter and the root element no class
NoSubview ==
    [ constructed |-> FALSE,
      popstateHandler |-> FALSE,  \* this.popstateHandler is set
      listeners |-> 0,            \* popstate listeners it has on window
      open |-> FALSE,             \* the location has the 'open' parameter
      depth |-> 0,                \* history entries pushed and not left
      root |-> {},                \* classes of .sliding-subview--root
      immediate |-> 0,            \* pending outer timers of the iOS path
      clearing |-> 0,             \* pending inner timers of the iOS path
      animated |-> 0,             \* pending timers of the animated path
      teardowns |-> 0,            \* runs of _destroy
      destroyed |-> 0,            \* calls of this.destroy()
      generation |-> 0,           \* subviews constructed so far
      last |-> [op |-> "none", teardown |-> FALSE] ]

\* no EmailProtectionModel constructed yet
NoModel ==
    [ constructed |-> "no",       \* no, threw, or built
      attrs |-> Undefined,        \* the argument of the constructor
      emailProtectionUserData |-> JSNull,
      state |-> "unknown",
      refreshes |-> 0,            \* replies to refreshAlias so far
      last |-> [op |-> "none", resp |-> Undefined, threw |-> FALSE] ]

InitViews ==
    /\ siteView = Site
    /\ slidingSubview = NoSubview
    /\ emailProtection = NoModel

Init ==
    /\ InitAggregator(MaxCalls)
    /\ InitWebview(MacHandlers, FALSE)
    /\ InitViews

backgroundMessage ==
    /\ Called
    /\ channel' = "backgroundModel"
    /\ lastCall' = Call("backgroundMessage", TRUE, FALSE)
    /\ invoked' = << >>
    /\ sent' = 0
    /\ UNCHANGED <<aggregator, promises, history>>

\* onChangeRequestData without the check of protections
onChangeRequestData_unguarded(tabUrl, requestData) ==
    /\ Called
    /\ lastCall' = Call("onChangeRequestData", requestData.success, FALSE)
    /\ IF ~requestData.success
         THEN /\ invoked' = << >>
              /\ sent' = 0
              /\ UNCHANGED <<channel, aggregator, promises, history>>
         ELSE /\ trackerBlockingData' =
                    createTabData(tabUrl, upgradedHttps, protections,
                                  requestData.data)
              /\ UNCHANGED <<channel, getBackgroundTabDataPromises,
                             permissionsData, certificateData, upgradedHttps,
                             protections, isPendingUpdates, parentEntity,
                             cookiePromptManagementStatus, locale, consentLog>>
              /\ prevDelivery' = lastDelivery
              /\ lastDelivery' =
                    [made |-> TRUE, tabUrl |-> tabUrl,
                     data |-> requestData.data,
                     protections |-> protections,
                     derived |-> trackerBlockingData']
              /\ resolveInitialRender

\* onChangeRequestData deriving from the upgradedHttps value it saw at the
\* first delivery instead of the latest one
onChangeRequestData_staleHttps(tabUrl, requestData) ==
    /\ Called
    /\ lastCall' = Call("onChangeRequestData", requestData.success,
                        ~Truthy(protections))
    /\ IF ~Truthy(protections)
         THEN /\ invoked' = << >>
              /\ sent' = 0
              /\ UNCHANGED <<channel, aggregator, promises, history>>
         ELSE IF ~requestData.success
         THEN /\ invoked' = << >>
              /\ sent' = 0
              /\ UNCHANGED <<channel, aggregator, promises, history>>
         ELSE /\ trackerBlockingData' =
                    createTabData(tabUrl,
                                  IF lastDelivery.made
                                      THEN lastDelivery.derived.val.upgradedHttps
                                      ELSE upgradedHttps,
                                  protections, requestData.data)
              /\ UNCHANGED <<channel, getBackgroundTabDataPromises,
                             permissionsData, certificateData, upgradedHttps,
                             protections, isPendingUpdates, parentEntity,
                             cookiePromptManagementStatus, locale, consentLog>>
              /\ prevDelivery' = lastDelivery
              /\ lastDelivery' =
                    [made |-> TRUE, tabUrl |-> tabUrl,
                     data |-> requestData.data,
                     protections |-> protections,
                     derived |-> trackerBlockingData']
              /\ resolveInitialRender

onChangeRequestData(tabUrl, requestData) ==
    /\ Called
    /\ lastCall' = Call("onChangeRequestData", requestData.success,
                        ~Truthy(protections))
    /\ IF ~Truthy(protections)
         THEN \* throw new Error('protections status not set')
              /\ invoked' = << >>
              /\ sent' = 0
              /\ UNCHANGED <<channel, aggregator, promises, history>>
         ELSE IF ~requestData.success
         THEN /\ invoked' = << >>
              /\ sent' = 0
              /\ UNCHANGED <<channel, aggregator, promises, history>>
         ELSE /\ trackerBlockingData' =
                    createTabData(tabUrl, upgradedHttps, protections,
                                  requestData.data)
              /\ UNCHANGED <<channel, getBackgroundTabDataPromises,
                             permissionsData, certificateData, upgradedHttps,
                             protections, isPendingUpdates, parentEntity,
                             cookiePromptManagementStatus, locale, consentLog>>
              /\ prevDelivery' = lastDelivery
              /\ lastDelivery' =
                    [made |-> TRUE, tabUrl |-> tabUrl,
                     data |-> requestData.data,
                     protections |-> protections,
                     derived |-> trackerBlockingData']
              /\ resolveInitialRender

\* onChangeProtectionStatus storing parsed.data without looking at
\* parsed.success: undefined after a payload that fails validation
onChangeProtectionStatus_unchecked(parsed) ==
    /\ Called
    /\ lastCall' = Call("onChangeProtectionStatus", parsed.success, FALSE)
    /\ protections' = IF parsed.success THEN JSObject(parsed.data)
                                        ELSE Undefined
    /\ UNCHANGED <<channel, getBackgroundTabDataPromises,
                   trackerBlockingData, permissionsData,
                   certificateData, upgradedHttps, isPendingUpdates,
                   parentEntity, cookiePromptManagementStatus,
                   locale, history>>
    /\ resolveInitialRender

onChangeProtectionStatus(parsed) ==
    /\ Called
    /\ lastCall' = Call("onChangeProtectionStatus", parsed.success, FALSE)
    /\ IF ~parsed.success
         THEN /\ invoked' = << >>
              /\ sent' = 0
              /\ UNCHANGED <<channel, aggregator, promises, history>>
         ELSE /\ protections' = JSObject(parsed.data)
              /\ UNCHANGED <<channel, getBackgroundTabDataPromises,
                             trackerBlockingData, permissionsData,
                             certificateData, upgradedHttps, isPendingUpdates,
                             parentEntity, cookiePromptManagementStatus,
                             locale, history>>
              /\ resolveInitialRender

\* onChangeLocale sending the notification before it looks at the result
onChangeLocale_notifyOnFailure(parsed) ==
    /\ Called
    /\ lastCall' = Call("onChangeLocale", parsed.success, FALSE)
    /\ invoked' = << >>
    /\ sent' = channelSend
    /\ IF ~parsed.success
         THEN UNCHANGED <<channel, aggregator, promises, history>>
         ELSE /\ locale' = JSString(parsed.data.locale)
              /\ UNCHANGED <<channel, getBackgroundTabDataPromises,
                             trackerBlockingData, permissionsData,
                             certificateData, upgradedHttps, protections,
                             isPendingUpdates, parentEntity,
                             cookiePromptManagementStatus, promises, history>>

\* onChangeLocale that, besides its own notification, also runs the drain
\* and notification of resolveInitialRender
onChangeLocale_alsoResolves(parsed) ==
    /\ Called
    /\ lastCall' = Call("onChangeLocale", parsed.success, FALSE)
    /\ IF ~parsed.success
         THEN /\ invoked' = << >>
              /\ sent' = 0
              /\ UNCHANGED <<channel, aggregator, promises, history>>
         ELSE /\ locale' = JSString(parsed.data.locale)
              /\ UNCHANGED <<channel, getBackgroundTabDataPromises,
                             trackerBlockingData, permissionsData,
                             certificateData, upgradedHttps, protections,
                             isPendingUpdates, parentEntity,
                             cookiePromptManagementStatus, history>>
              /\ promises' =
                    [i \in DOMAIN promises |->
                        IF isReady' /\ i \in Range(getBackgroundTabDataPromises)
                            THEN Resolve(promises[i], combineSources',
                                         Content(combineSources)', isReady')
                            ELSE promises[i]]
              /\ invoked' = IF isReady' THEN getBackgroundTabDataPromises
                                        ELSE << >>
              /\ sent' = channelSend + (IF isReady' THEN channelSend ELSE 0)

onChangeLocale(parsed) ==
    /\ Called
    /\ lastCall' = Call("onChangeLocale", parsed.success, FALSE)
    /\ invoked' = << >>
    /\ IF ~parsed.success
         THEN /\ sent' = 0
              /\ UNCHANGED <<channel, aggregator, promises, history>>
         ELSE /\ locale' = JSString(parsed.data.locale)
              /\ sent' = channelSend
              /\ UNCHANGED <<channel, getBackgroundTabDataPromises,
                             trackerBlockingData, permissionsData,
                             certificateData, upgradedHttps, protections,
                             isPendingUpdates, parentEntity,
                             cookiePromptManagementStatus, promises, history>>

\* onChangeConsentManaged replacing the accumulator instead of merging
onChangeConsentManaged_replace(parsed) ==
    /\ Called
    /\ lastCall' = Call("onChangeConsentManaged", parsed.success, FALSE)
    /\ invoked' = << >>
    /\ IF ~parsed.success
         THEN /\ sent' = 0
              /\ UNCHANGED <<channel, aggregator, promises, history>>
         ELSE /\ Len(consentLog) < MaxConsentUpdates
              /\ cookiePromptManagementStatus' = parsed.data
              /\ consentLog' = Append(consentLog, parsed.data)
              /\ sent' = channelSend
              /\ UNCHANGED <<channel, getBackgroundTabDataPromises,
                             trackerBlockingData, permissionsData,
                             certificateData, upgradedHttps, protections,
                             isPendingUpdates, parentEntity, locale, promises,
                             prevDelivery, lastDelivery>>

onChangeConsentManaged(parsed) ==
    /\ Called
    /\ lastCall' = Call("onChangeConsentManaged", parsed.success, FALSE)
    /\ invoked' = << >>
    /\ IF ~parsed.success
         THEN /\ sent' = 0
              /\ UNCHANGED <<channel, aggregator, promises, history>>
         ELSE /\ Len(consentLog) < MaxConsentUpdates
              /\ cookiePromptManagementStatus' =
                    ObjectAssign(cookiePromptManagementStatus, parsed.data)
              /\ consentLog' = Append(consentLog, parsed.data)
              /\ sent' = channelSend
              /\ UNCHANGED <<channel, getBackgroundTabDataPromises,
                             trackerBlockingData, permissionsData,
                             certificateData, upgradedHttps, protections,
                             isPendingUpdates, parentEntity, locale, promises,
                             prevDelivery, lastDelivery>>

\* onChangeAllowedPermissions ignoring a value that is not truthy
onChangeAllowedPermissions_keepTruthy(data) ==
    /\ Called
    /\ lastCall' = Delivery("onChangeAllowedPermissions", data)
    /\ invoked' = << >>
    /\ permissionsData' = IF Truthy(data) THEN data ELSE permissionsData
    /\ sent' = channelSend
    /\ UNCHANGED <<channel, getBackgroundTabDataPromises, trackerBlockingData,
                   certificateData, upgradedHttps, protections,
                   isPendingUpdates, parentEntity,
                   cookiePromptManagementStatus, locale, promises, history>>

\* onChangeAllowedPermissions ending, like the gate-related updates, with
\* resolveInitialRender
onChangeAllowedPermissions_resolving(data) ==
    /\ Called
    /\ lastCall' = Delivery("onChangeAllowedPermissions", data)
    /\ permissionsData' = data
    /\ UNCHANGED <<channel, getBackgroundTabDataPromises, trackerBlockingData,
                   certificateData, upgradedHttps, protections,
                   isPendingUpdates, parentEntity,
                   cookiePromptManagementStatus, locale, history>>
    /\ resolveInitialRender

onChangeAllowedPermissions(data) ==
    /\ Called
    /\ lastCall' = Delivery("onChangeAllowedPermissions", data)
    /\ invoked' = << >>
    /\ permissionsData' = data
    /\ sent' = channelSend
    /\ UNCHANGED <<channel, getBackgroundTabDataPromises, trackerBlockingData,
                   certificateData, upgradedHttps, protections,
                   isPendingUpdates, parentEntity,
                   cookiePromptManagementStatus, locale, promises, history>>

\* onChangeUpgradedHttps without the patch of trackerBlockingData
onChangeUpgradedHttps_noPatch(data) ==
    /\ Called
    /\ lastCall' = Call("onChangeUpgradedHttps", TRUE, FALSE)
    /\ upgradedHttps' = data
    /\ UNCHANGED <<channel, getBackgroundTabDataPromises, trackerBlockingData,
                   permissionsData, certificateData, protections,
                   isPendingUpdates, parentEntity,
                   cookiePromptManagementStatus, locale, history>>
    /\ resolveInitialRender

onChangeUpgradedHttps(data) ==
    /\ Called
    /\ lastCall' = Call("onChangeUpgradedHttps", TRUE, FALSE)
    /\ upgradedHttps' = data
    /\ trackerBlockingData' =
          IF Truthy(trackerBlockingData)
              THEN JSObject([trackerBlockingData.val EXCEPT
                                !.upgradedHttps = upgradedHttps'])
              ELSE trackerBlockingData
    /\ UNCHANGED <<channel, getBackgroundTabDataPromises, permissionsData,
                   certificateData, protections, isPendingUpdates,
                   parentEntity, cookiePromptManagementStatus, locale,
                   history>>
    /\ resolveInitialRender

onChangeCertificateData(data) ==
    /\ Called
    /\ lastCall' = Delivery("onChangeCertificateData", data)
    /\ invoked' = << >>
    /\ certificateData' = data.secCertificateViewModels
    /\ sent' = channelSend
    /\ UNCHANGED <<channel, getBackgroundTabDataPromises, trackerBlockingData,
                   permissionsData, upgradedHttps, protections,
                   isPendingUpdates, parentEntity,
                   cookiePromptManagementStatus, locale, promises, history>>

onIsPendingUpdates(data) ==
    /\ Called
    /\ lastCall' = Call("onIsPendingUpdates", TRUE, FALSE)
    /\ invoked' = << >>
    /\ isPendingUpdates' = data
    /\ sent' = channelSend
    /\ UNCHANGED <<channel, getBackgroundTabDataPromises, trackerBlockingData,
                   permissionsData, certificateData, upgradedHttps,
                   protections, parentEntity, cookiePromptManagementStatus,
                   locale, promises, history>>

onChangeParentEntity(data) ==
    /\ Called
    /\ lastCall' = Call("onChangeParentEntity", TRUE, FALSE)
    /\ invoked' = << >>
    /\ parentEntity' = data
    /\ sent' = channelSend
    /\ UNCHANGED <<channel, getBackgroundTabDataPromises, trackerBlockingData,
                   permissionsData, certificateData, upgradedHttps,
                   protections, isPendingUpdates,
                   cookiePromptManagementStatus, locale, promises, history>>

\* getBackgroundTabData taking a callback and invoking it itself when the
\* data is already there
getBackgroundTabData_callback ==
    /\ Len(promises) < MaxPromises
    /\ calls < sessionLength
    /\ calls' = calls + 1
    /\ lastCall' = Call("getBackgroundTabData", TRUE, FALSE)
    /\ invoked' = << >>
    /\ sent' = 0
    /\ IF Truthy(trackerBlockingData)
         THEN /\ promises' =
                    Append(promises,
                           Resolve(Pending, combineSources,
                                   Content(combineSources), isReady))
              /\ continued' = continued \cup {Len(promises) + 1}
              /\ UNCHANGED getBackgroundTabDataPromises
         ELSE /\ promises' = Append(promises, Pending)
              /\ getBackgroundTabDataPromises' =
                    Append(getBackgroundTabDataPromises, Len(promises) + 1)
              /\ UNCHANGED continued
    /\ UNCHANGED <<channel, trackerBlockingData, permissionsData,
                   certificateData, upgradedHttps, protections,
                   isPendingUpdates, parentEntity,
                   cookiePromptManagementStatus, locale, history,
                   sessionLength, bridge, views>>

\* getBackgroundTabData treating the permissions as delivered once: it
\* clears them after handing a snapshot over
getBackgroundTabData_consuming ==
    /\ Len(promises) < MaxPromises
    /\ Called
    /\ lastCall' = Call("getBackgroundTabData", TRUE, FALSE)
    /\ invoked' = << >>
    /\ sent' = 0
    /\ IF Truthy(trackerBlockingData)
         THEN /\ promises' =
                    Append(promises,
                           Resolve(Pending, combineSources,
                                   Content(combineSources), isReady))
              /\ permissionsData' = Undefined
              /\ UNCHANGED getBackgroundTabDataPromises
         ELSE /\ promises' = Append(promises, Pending)
              /\ getBackgroundTabDataPromises' =
                    Append(getBackgroundTabDataPromises, Len(promises) + 1)
              /\ UNCHANGED permissionsData
    /\ UNCHANGED <<channel, trackerBlockingData, certificateData,
                   upgradedHttps, protections, isPendingUpdates, parentEntity,
                   cookiePromptManagementStatus, locale, history>>

getBackgroundTabData ==
    /\ Len(promises) < MaxPromises
    /\ Called
    /\ lastCall' = Call("getBackgroundTabData", TRUE, FALSE)
    /\ invoked' = << >>
    /\ sent' = 0
    /\ IF Truthy(trackerBlockingData)
         THEN /\ promises' =
                    Append(promises,
                           Resolve(Pending, combineSources,
                                   Content(combineSources), isReady))
              /\ UNCHANGED getBackgroundTabDataPromises
         ELSE /\ promises' = Append(promises, Pending)
              /\ getBackgroundTabDataPromises' =
                    Append(getBackgroundTabDataPromises, Len(promises) + 1)
    /\ UNCHANGED <<channel, trackerBlockingData, permissionsData,
                   certificateData, upgradedHttps, protections,
                   isPendingUpdates, parentEntity,
                   cookiePromptManagementStatus, locale, history>>

Next ==
    \/ backgroundMessage
    \/ \E tabUrl \in TabUrls, requestData \in RequestDataInputs :
            onChangeRequestData(tabUrl, requestData)
    \/ \E parsed \in ProtectionInputs : onChangeProtectionStatus(parsed)
    \/ \E parsed \in LocaleInputs : onChangeLocale(parsed)
    \/ \E parsed \in ConsentInputs : onChangeConsentManaged(parsed)
    \/ \E data \in PermissionInputs : onChangeAllowedPermissions(data)
    \/ \E data \in UpgradedHttpsInputs : onChangeUpgradedHttps(data)
    \/ \E data \in CertificateInputs : onChangeCertificateData(data)
    \/ \E data \in PendingInputs : onIsPendingUpdates(data)
    \/ \E data \in ParentEntityInputs : onChangeParentEntity(data)
    \/ getBackgroundTabData

Spec == Init /\ [][Next]_vars

(***************************************************************************)
(* A longer session of the same entry points in which the host delivers    *)
(* one value of each kind (both values of upgradedHttps).                  *)
(***************************************************************************)
InitSession ==
    /\ InitAggregator(MaxSessionCalls)
    /\ InitWebview(MacHandlers, FALSE)
    /\ InitViews

NextSession ==
    \/ backgroundMessage
    \/ onChangeRequestData("https://a.example", ParseSuccess("requests1"))
    \/ onChangeProtectionStatus(ParseSuccess("p1"))
    \/ onChangeLocale(ParseSuccess([locale |-> "en"]))
    \/ onChangeConsentManaged(ParseSuccess([consentManaged |-> TRUE]))
    \/ onChangeAllowedPermissions(JSObject("camera"))
    \/ \E data \in UpgradedHttpsInputs : onChangeUpgradedHttps(data)
    \/ onChangeCertificateData([secCertificateViewModels |-> JSObject("cert")])
    \/ onIsPendingUpdates(JSBool(TRUE))
    \/ onChangeParentEntity(JSObject("entity"))
    \/ getBackgroundTabData

SpecSession == InitSession /\ [][NextSession]_vars

(***************************************************************************)
(* The event loop.  The Site view calls getBackgroundTabData().then(...);  *)
(* the then-callback of a fulfilled promise is a microtask: it runs after  *)
(* the call that fulfilled the promise has returned and before the next    *)
(* call is dispatched.                                                     *)
(***************************************************************************)
Fulfilled == {i \in DOMAIN promises : promises[i].state = "fulfilled"}

Waiting == {i \in Fulfilled : i \notin continued}

\* the host or the UI makes its next call once no then-callback is waiting
dispatch ==
    /\ Waiting = {}
    /\ \/ backgroundMessage
       \/ onChangeRequestData("https://a.example", ParseSuccess("requests1"))
       \/ onChangeProtectionStatus(ParseSuccess("p1"))
       \/ onChangeLocale(ParseSuccess([locale |-> "en"]))
       \/ \E data \in UpgradedHttpsInputs : onChangeUpgradedHttps(data)
       \/ onChangeAllowedPermissions(JSObject("camera"))
       \/ getBackgroundTabData

\* the callback given to getBackgroundTabData().then
continuation(i) ==
    /\ i \in Waiting
    /\ continued' = continued \cup {i}
    /\ UNCHANGED <<channel, aggregator, promises, lastCall, invoked, sent,
                   history, calls, sessionLength, bridge, views>>

NextLoop ==
    \/ dispatch
    \/ \E i \in 1..MaxPromises : continuation(i)

SpecLoop == Init /\ [][NextLoop]_vars

(***************************************************************************)
(* The outgoing side: messages the UI hands to fetch, the size reports and *)
(* the request/reply exchange for the toggle-report options.               *)
(***************************************************************************)
core ==
    <<channel, aggregator, promises, lastCall, invoked, sent, history, calls,
      sessionLength, continued>>

session == <<core, views>>

EventOrigins == {[screen |-> "primaryScreen"], [screen |-> "breakageForm"]}

ListItems ==
    { [list |-> "allowlisted", value |-> TRUE],
      [list |-> "allowlisted", value |-> FALSE],
      [list |-> "denylisted", value |-> TRUE] }

Lists == UNION {[1..n -> ListItems] : n \in 0..MaxListItems}

FetchMessages ==
    {[kind |-> "CloseMessage", eventOrigin |-> o] : o \in EventOrigins}
    \cup {[kind |-> "SubmitBrokenSiteReportMessage", category |-> "videos",
           description |-> d] : d \in {"", "details"}}
    \cup {[kind |-> "SetListsMessage", lists |-> l, eventOrigin |-> o] :
            l \in Lists, o \in EventOrigins}
    \cup {[kind |-> "OpenSettingsMessages", target |-> "cpm"]}
    \cup {[kind |-> "UpdatePermissionMessage", id |-> "camera", value |-> v] :
            v \in {"grant", "deny"}}
    \cup {[kind |-> k] : k \in {"FetchToggleReportOptions",
                                "SendToggleBreakageReport",
                                "RejectToggleBreakageReport", "SeeWhatIsSent",
                                "RefreshEmailAliasMessage"}}

Heights == {JSNumber(100), JSNumber(200)}
ContentHeights == Heights \cup {Undefined}
Hrefs == {"https://duckduckgo.com/about"}

\* what the host passes to window.onGetToggleReportOptionsResponse, with the
\* result toggleReportScreenSchema.parse has on it
ToggleReplies ==
    { [raw |-> "raw1", parsed |-> ParseSuccess("options1")],
      [raw |-> "raw2", parsed |-> ParseSuccess("options2")],
      [raw |-> "bad", parsed |-> ParseFailure] }

\* const isProtected = value === false
isProtectedOf_same(value) == value = TRUE

isProtectedOf(value) == value = FALSE

\* the for loop over message.lists, from item i on, after the messages sent
RECURSIVE setLists(_, _, _)
setLists(message, i, sentSoFar) ==
    IF i > Len(message.lists)
        THEN Done(FALSE, sentSoFar)
        ELSE LET listItem == message.lists[i]
             IN  IF listItem.list /= "allowlisted"
                     THEN setLists(message, i + 1, sentSoFar)
                     ELSE LET r == privacyDashboardSetProtection(
                                     [eventOrigin |-> message.eventOrigin,
                                      isProtected |->
                                          isProtectedOf(listItem.value)])
                          IN  IF r.threw
                                  THEN Done(TRUE, sentSoFar)
                                  ELSE setLists(message, i + 1,
                                                sentSoFar \o r.posted)

\* privacyDashboardSetSize without the test of isIOS()
privacyDashboardSetSize_everywhere(payload) ==
    postMessage("privacyDashboardSetSize", payload)

privacyDashboardSetSize(payload) ==
    IF ~isIOS
        THEN postMessage("privacyDashboardSetSize", payload)
        ELSE Done(FALSE, << >>)

\* fetch leaving the loop over message.lists after its first item
fetchPosting_firstItem(message) ==
    CASE message.kind = "CloseMessage" ->
            privacyDashboardClose([eventOrigin |-> message.eventOrigin])
      [] message.kind = "SubmitBrokenSiteReportMessage" ->
            privacyDashboardSubmitBrokenSiteReport(
                [category |-> message.category,
                 description |-> message.description])
      [] message.kind = "SetListsMessage" ->
            setLists([message EXCEPT
                        !.lists = IF Len(@) > 1 THEN SubSeq(@, 1, 1) ELSE @],
                     1, << >>)
      [] message.kind = "OpenSettingsMessages" ->
            privacyDashboardOpenSettings([target |-> message.target])
      [] message.kind = "UpdatePermissionMessage" ->
            privacyDashboardSetPermission(
                [permission |-> message.id, value |-> message.value])
      [] message.kind = "SendToggleBreakageReport" ->
            privacyDashboardSendToggleReport
      [] message.kind = "RejectToggleBreakageReport" ->
            privacyDashboardRejectToggleReport
      [] message.kind = "SeeWhatIsSent" -> privacyDashboardSeeWhatIsSent
      [] OTHER -> Done(FALSE, << >>)

\* the branches of fetch that post and return without waiting for the host
fetchPosting(message) ==
    CASE message.kind = "CloseMessage" ->
            privacyDashboardClose([eventOrigin |-> message.eventOrigin])
      [] message.kind = "SubmitBrokenSiteReportMessage" ->
            privacyDashboardSubmitBrokenSiteReport(
                [category |-> message.category,
                 description |-> message.description])
      [] message.kind = "SetListsMessage" -> setLists(message, 1, << >>)
      [] message.kind = "OpenSettingsMessages" ->
            privacyDashboardOpenSettings([target |-> message.target])
      [] message.kind = "UpdatePermissionMessage" ->
            privacyDashboardSetPermission(
                [permission |-> message.id, value |-> message.value])
      [] message.kind = "SendToggleBreakageReport" ->
            privacyDashboardSendToggleReport
      [] message.kind = "RejectToggleBreakageReport" ->
            privacyDashboardRejectToggleReport
      [] message.kind = "SeeWhatIsSent" -> privacyDashboardSeeWhatIsSent
      [] OTHER -> Done(FALSE, << >>)

ToggleRequest(state, viaFetch) ==
    [state |-> state, value |-> "none", viaFetch |-> viaFetch,
     fetched |-> [state |-> IF ~viaFetch THEN "none" ELSE state,
                  value |-> "none"]]

\* a later call settling the request that is still waiting
privacyDashboardGetToggleReportOptions_cancelling(viaFetch, arg) ==
    /\ Len(toggleRequests) < MaxRequests
    /\ LET r == postMessage("privacyDashboardGetToggleReportOptions",
                            EmptyObject)
       IN  /\ posted' = r.posted
           /\ bridgeCall' =
                BridgeCall(IF viaFetch
                               THEN "fetch"
                               ELSE "privacyDashboardGetToggleReportOptions",
                           arg, IF r.threw THEN "rejected" ELSE "pending")
           /\ IF r.threw
                THEN /\ toggleRequests' =
                            Append(toggleRequests,
                                   ToggleRequest("rejected", viaFetch))
                     /\ UNCHANGED onGetToggleReportOptionsResponse
                ELSE /\ toggleRequests' =
                            Append([i \in DOMAIN toggleRequests |->
                                       IF toggleRequests[i].state = "pending"
                                           THEN [toggleRequests[i] EXCEPT
                                                    !.state = "fulfilled"]
                                           ELSE toggleRequests[i]],
                                   ToggleRequest("pending", viaFetch))
                     /\ onGetToggleReportOptionsResponse' =
                            Len(toggleRequests) + 1
    /\ UNCHANGED <<session, messageHandlers, isIOS>>

\* the executor of the returned promise: an invariant failure rejects it
privacyDashboardGetToggleReportOptions(viaFetch, arg) ==
    /\ Len(toggleRequests) < MaxRequests
    /\ LET r == postMessage("privacyDashboardGetToggleReportOptions",
                            EmptyObject)
       IN  /\ posted' = r.posted
           /\ bridgeCall' =
                BridgeCall(IF viaFetch
                               THEN "fetch"
                               ELSE "privacyDashboardGetToggleReportOptions",
                           arg, IF r.threw THEN "rejected" ELSE "pending")
           /\ IF r.threw
                THEN /\ toggleRequests' =
                            Append(toggleRequests,
                                   ToggleRequest("rejected", viaFetch))
                     /\ UNCHANGED onGetToggleReportOptionsResponse
                ELSE /\ toggleRequests' =
                            Append(toggleRequests,
                                   ToggleRequest("pending", viaFetch))
                     /\ onGetToggleReportOptionsResponse' =
                            Len(toggleRequests) + 1
    /\ UNCHANGED <<session, messageHandlers, isIOS>>

fetch(message) ==
    IF message.kind = "FetchToggleReportOptions"
        THEN privacyDashboardGetToggleReportOptions(TRUE, message)
        ELSE /\ LET r == fetchPosting(message)
                IN  /\ posted' = r.posted
                    /\ bridgeCall' =
                         BridgeCall("fetch", message,
                                    IF r.threw THEN "rejected"
                                               ELSE "fulfilled")
             /\ UNCHANGED <<session, messageHandlers, isIOS,
                            onGetToggleReportOptionsResponse, toggleRequests>>

\* fetch returning the reply as it came, without toggleReportScreenSchema
Replied_unparsed(request, data) ==
    IF request.state /= "pending"
        THEN request
        ELSE [state |-> "fulfilled", value |-> data.raw,
              viaFetch |-> request.viaFetch,
              fetched |->
                  IF ~request.viaFetch THEN request.fetched
                  ELSE [state |-> "fulfilled", value |-> data.raw]]

\* resolve(data) on the request's promise, and fetch's continuation if the
\* request came through fetch; a settled promise ignores a second resolve
Replied(request, data) ==
    IF request.state /= "pending"
        THEN request
        ELSE [state |-> "fulfilled", value |-> data.raw,
              viaFetch |-> request.viaFetch,
              fetched |->
                  IF ~request.viaFetch THEN request.fetched
                  ELSE IF data.parsed.success
                  THEN [state |-> "fulfilled", value |-> data.parsed.data]
                  ELSE [state |-> "rejected", value |-> "none"]]

\* a reply handed to every request that is still waiting
replyToggleReportOptions_broadcast(data) ==
    /\ posted' = << >>
    /\ IF onGetToggleReportOptionsResponse = 0
         THEN /\ bridgeCall' =
                    BridgeCall("onGetToggleReportOptionsResponse", data,
                               "threw")
              /\ UNCHANGED <<onGetToggleReportOptionsResponse, toggleRequests>>
         ELSE /\ bridgeCall' =
                    BridgeCall("onGetToggleReportOptionsResponse", data,
                               "returned")
              /\ toggleRequests' =
                    [i \in DOMAIN toggleRequests |->
                        Replied(toggleRequests[i], data)]
              /\ onGetToggleReportOptionsResponse' = 0
    /\ UNCHANGED <<session, messageHandlers, isIOS>>

\* the reply handler that stays installed after its reply
replyToggleReportOptions_keepsHandler(data) ==
    /\ posted' = << >>
    /\ IF onGetToggleReportOptionsResponse = 0
         THEN /\ bridgeCall' =
                    BridgeCall("onGetToggleReportOptionsResponse", data,
                               "threw")
              /\ UNCHANGED <<onGetToggleReportOptionsResponse, toggleRequests>>
         ELSE /\ bridgeCall' =
                    BridgeCall("onGetToggleReportOptionsResponse", data,
                               "returned")
              /\ toggleRequests' =
                    [toggleRequests EXCEPT
                        ![onGetToggleReportOptionsResponse] =
                            Replied(@, data)]
              /\ UNCHANGED onGetToggleReportOptionsResponse
    /\ UNCHANGED <<session, messageHandlers, isIOS>>

\* the host evaluates window.onGetToggleReportOptionsResponse(data); fetch,
\* when it made the request, goes on with toggleReportScreenSchema.parse
replyToggleReportOptions(data) ==
    /\ posted' = << >>
    /\ IF onGetToggleReportOptionsResponse = 0
         THEN \* no such function on window: the error is the host's
              /\ bridgeCall' =
                    BridgeCall("onGetToggleReportOptionsResponse", data,
                               "threw")
              /\ UNCHANGED <<onGetToggleReportOptionsResponse, toggleRequests>>
         ELSE /\ bridgeCall' =
                    BridgeCall("onGetToggleReportOptionsResponse", data,
                               "returned")
              /\ toggleRequests' =
                    [toggleRequests EXCEPT
                        ![onGetToggleReportOptionsResponse] =
                            Replied(@, data)]
              /\ onGetToggleReportOptionsResponse' = 0
    /\ UNCHANGED <<session, messageHandlers, isIOS>>

\* the callback setup() gives to setupMutationObserver
mutationObserved(height) ==
    /\ LET r == privacyDashboardSetSize([height |-> height])
       IN  /\ posted' = r.posted
           /\ bridgeCall' =
                BridgeCall("privacyDashboardSetSize", height,
                           IF r.threw THEN "threw" ELSE "returned")
    /\ UNCHANGED <<session, messageHandlers, isIOS,
                   onGetToggleReportOptionsResponse, toggleRequests>>

\* height is what getContentHeight() returns
firstRenderComplete(height) ==
    /\ LET r == IF typeof(height) = "number"
                    THEN privacyDashboardSetSize([height |-> height])
                    ELSE Done(FALSE, << >>)
       IN  /\ posted' = r.posted
           /\ bridgeCall' =
                BridgeCall("firstRenderComplete", height,
                           IF r.threw THEN "threw" ELSE "returned")
    /\ UNCHANGED <<session, messageHandlers, isIOS,
                   onGetToggleReportOptionsResponse, toggleRequests>>

\* the listener setupShared gives to setupGlobalOpenerListener
openerClicked(href) ==
    /\ LET r == privacyDashboardOpenUrlInNewTab([url |-> href])
       IN  /\ posted' = r.posted
           /\ bridgeCall' =
                BridgeCall("privacyDashboardOpenUrlInNewTab", href,
                           IF r.threw THEN "threw" ELSE "returned")
    /\ UNCHANGED <<session, messageHandlers, isIOS,
                   onGetToggleReportOptionsResponse, toggleRequests>>

InitBridge ==
    /\ InitAggregator(0)
    /\ \E handlers \in Webviews, ios \in BOOLEAN : InitWebview(handlers, ios)
    /\ InitViews

NextBridge ==
    \/ \E message \in FetchMessages : fetch(message)
    \/ privacyDashboardGetToggleReportOptions(FALSE, "none")
    \/ \E data \in ToggleReplies : replyToggleReportOptions(data)
    \/ \E height \in Heights : mutationObserved(height)
    \/ \E height \in ContentHeights : firstRenderComplete(height)
    \/ \E href \in Hrefs : openerClicked(href)

SpecBridge == InitBridge /\ [][NextBridge]_vars

(***************************************************************************)
(* The Site view.  The constructor has asked the model for the tab data;   *)
(* the then-callback paints, the store's 'change:site' event and the       *)
(* deferred timer call rerender, and the click handlers bound by _setup    *)
(* toggle the allowlist and open the sliding subviews.  The site model and *)
(* the breakage form are the environment: they settle the promise, set     *)
(* model.tab, model.domain and model.disabled, and put the class           *)
(* 'confirmation-active' on the body.                                      *)
(***************************************************************************)
TabStates == {"none", "complete", "loading"}
Domains == {"new tab", "example.com"}
Subviews == {"_showPageTrackers", "_showPageNonTrackers", "_showPageConnection"}

\* one more event handled by the Site view
SiteEvent(v, op, rerendered) ==
    /\ siteView.events < MaxSiteEvents
    /\ siteView' = [v EXCEPT !.events = @ + 1,
                             !.last = [op |-> op, rerender |-> rerendered]]
    /\ UNCHANGED <<core, bridge, slidingSubview, emailProtection>>

\* rerender: function ()
rerender(v) ==
    IF "confirmation-active" \in v.body
      THEN v
      ELSE IF v.disabled
             THEN IF "is-disabled" \notin v.body
                    THEN [v EXCEPT !.body = @ \cup {"is-disabled"},
                                   !.rerendered = @ + 1,
                                   !.setups = @ + 1]
                    ELSE v
             ELSE [v EXCEPT !.body = @ \ {"is-disabled"},
                            !.unbinds = @ + 1,
                            !.rerendered = @ + 1,
                            !.setups = @ + 1]

\* this.model.getBackgroundTabData() settles: fulfilled with the model's
\* tab, domain and disabled set, or rejected
getBackgroundTabDataSettled(outcome, tab, domain, disabled) ==
    /\ siteView.promise = "pending"
    /\ SiteEvent(IF outcome = "fulfilled"
                   THEN [siteView EXCEPT !.promise = "fulfilled",
                                         !.tab = tab,
                                         !.domain = domain,
                                         !.disabled = disabled]
                   ELSE [siteView EXCEPT !.promise = "rejected"],
                 "getBackgroundTabData", FALSE)

\* the then-callback of the constructor
firstPaint ==
    /\ siteView.promise = "fulfilled"
    /\ siteView.rendered = 0
    /\ SiteEvent(IF /\ siteView.tab /= "none"
                    /\ \/ siteView.tab = "complete"
                       \/ siteView.domain = "new tab"
                   THEN [siteView EXCEPT !.rendered = @ + 1,
                                         !.setups = @ + 1]
                   ELSE [siteView EXCEPT !.rendered = @ + 1,
                                         !.timers = @ + 1,
                                         !.scheduled = @ + 1],
                 "firstPaint", FALSE)

\* the catch handler of the constructor
caught ==
    /\ siteView.promise = "rejected"
    /\ siteView.logged = 0
    /\ SiteEvent([siteView EXCEPT !.logged = @ + 1], "catch", FALSE)

\* the timer of setTimeout(() => this.rerender(), 750) fires
rerenderTimer ==
    /\ siteView.timers > 0
    /\ SiteEvent(rerender([siteView EXCEPT !.timers = @ - 1]),
                 "rerenderTimer", TRUE)

\* the site model changes; _setup has subscribed rerender to 'change:site'
siteChanged(disabled) ==
    /\ siteView.rendered > 0
    /\ IF siteView.setups > 0
         THEN SiteEvent(rerender([siteView EXCEPT !.disabled = disabled]),
                        "change:site", TRUE)
         ELSE SiteEvent([siteView EXCEPT !.disabled = disabled],
                        "change:site", FALSE)

\* the breakage form shows or leaves its confirmation
confirmation(active) ==
    /\ siteView.setups > 0
    /\ SiteEvent([siteView EXCEPT
                     !.body = IF active
                                THEN @ \cup {"confirmation-active"}
                                ELSE @ \ {"confirmation-active"}],
                 "confirmation", FALSE)

\* _onAllowlistClick: function (e)
_onAllowlistClick ==
    /\ siteView.setups > 0
    /\ SiteEvent(IF "is-disabled" \in siteView.body
                   THEN siteView
                   ELSE [siteView EXCEPT !.toggleTimers = @ + 1],
                 "_onAllowlistClick", FALSE)

\* the timer of setTimeout(() => { this.model.toggleAllowlist() }, 250)
toggleTimer ==
    /\ siteView.toggleTimers > 0
    /\ SiteEvent([siteView EXCEPT !.toggleTimers = @ - 1,
                                  !.toggles = @ + 1],
                 "toggleTimer", FALSE)

\* _showPageTrackers, _showPageNonTrackers, _showPageConnection
_showPage(handler) ==
    /\ siteView.setups > 0
    /\ SiteEvent(IF "is-disabled" \in siteView.body
                   THEN siteView
                   ELSE [siteView EXCEPT !.subviews = @ + 1],
                 handler, FALSE)

NextSite ==
    \/ \E outcome \in {"fulfilled", "rejected"}, tab \in TabStates,
          domain \in Domains, disabled \in BOOLEAN :
            getBackgroundTabDataSettled(outcome, tab, domain, disabled)
    \/ firstPaint
    \/ caught
    \/ rerenderTimer
    \/ \E disabled \in BOOLEAN : siteChanged(disabled)
    \/ \E active \in BOOLEAN : confirmation(active)
    \/ _onAllowlistClick
    \/ toggleTimer
    \/ \E handler \in Subviews : _showPage(handler)

SpecSite == Init /\ [][NextSite]_vars

(***************************************************************************)
(* The sliding subview.  The Site view constructs one subview at a time;   *)
(* the window, its location and history and the root element are shared by *)
(* the subviews that follow each other.  The user clicks the close button  *)
(* or navigates back, and the timers started by _destroy fire.             *)
(***************************************************************************)
SubviewEvent(v, op, teardown) ==
    /\ slidingSubview' = [v EXCEPT !.last = [op |-> op, teardown |-> teardown]]
    /\ UNCHANGED <<core, bridge, siteView, emailProtection>>

\* setupNavigationSupport: function ()
setupNavigationSupport(v) ==
    LET pushed == [v EXCEPT !.open = TRUE, !.depth = @ + 1]
        removed == IF pushed.popstateHandler
                     THEN [pushed EXCEPT !.listeners = 0]
                     ELSE pushed
    IN  [removed EXCEPT !.popstateHandler = TRUE, !.listeners = @ + 1]

\* _destroy without the removeEventListener
_destroy_keepsListener(v, fromNavigation) ==
    LET replaced == [v EXCEPT !.open = FALSE, !.teardowns = @ + 1]
    IN  IF fromNavigation /\ isIOS
          THEN [replaced EXCEPT
                   !.root = @ \cup {"sliding-subview--immediate"},
                   !.immediate = @ + 1]
          ELSE [replaced EXCEPT
                   !.root = @ \ {"sliding-subview--open"},
                   !.animated = @ + 1]

\* _destroy: function (e, opts = {})
_destroy(v, fromNavigation) ==
    LET removed == IF v.popstateHandler
                     THEN [v EXCEPT !.listeners = 0]
                     ELSE v
        replaced == [removed EXCEPT !.open = FALSE, !.teardowns = @ + 1]
    IN  IF fromNavigation /\ isIOS
          THEN [replaced EXCEPT
                   !.root = @ \cup {"sliding-subview--immediate"},
                   !.immediate = @ + 1]
          ELSE [replaced EXCEPT
                   !.root = @ \ {"sliding-subview--open"},
                   !.animated = @ + 1]

\* timers of this subview that have not fired yet
PendingTimers ==
    slidingSubview.immediate + slidingSubview.clearing
        + slidingSubview.animated

\* function SlidingSubview (ops): a new subview, once the one before it
\* has been destroyed
SlidingSubview ==
    /\ slidingSubview.generation < MaxSubviews
    /\ \/ ~slidingSubview.constructed
       \/ slidingSubview.destroyed > 0 /\ PendingTimers = 0
    /\ SubviewEvent(
         setupNavigationSupport(
           [slidingSubview EXCEPT
               !.constructed = TRUE,
               !.popstateHandler = FALSE,
               !.listeners = 0,
               !.teardowns = 0,
               !.destroyed = 0,
               !.generation = @ + 1,
               !.root = @ \cup {"sliding-subview--open"}]),
         "SlidingSubview", FALSE)

\* click on the close button bound by setupClose, while the view's element
\* is still there
closeClicked ==
    /\ slidingSubview.constructed
    /\ slidingSubview.destroyed = 0
    /\ slidingSubview.teardowns < MaxTeardowns
    /\ SubviewEvent(_destroy(slidingSubview, FALSE), "close", TRUE)

\* the user navigates back: the location is the entry below, and the
\* popstate event goes to the registered handler
popstate ==
    /\ slidingSubview.depth > 0
    /\ LET back == [slidingSubview EXCEPT !.open = FALSE, !.depth = @ - 1]
       IN  IF back.listeners > 0
             THEN SubviewEvent(_destroy(back, TRUE), "popstate", TRUE)
             ELSE SubviewEvent(back, "popstate", FALSE)

\* the outer timer of the iOS navigation path
timerImmediate ==
    /\ slidingSubview.immediate > 0
    /\ SubviewEvent([slidingSubview EXCEPT
                        !.immediate = @ - 1,
                        !.root = @ \ {"sliding-subview--open"},
                        !.destroyed = @ + 1,
                        !.clearing = @ + 1],
                    "timerImmediate", FALSE)

\* the inner timer of the iOS navigation path
timerClearing ==
    /\ slidingSubview.clearing > 0
    /\ SubviewEvent([slidingSubview EXCEPT
                        !.clearing = @ - 1,
                        !.root = @ \ {"sliding-subview--immediate"}],
                    "timerClearing", FALSE)

\* the timer of the animated path
timerAnimated ==
    /\ slidingSubview.animated > 0
    /\ SubviewEvent([slidingSubview EXCEPT
                        !.animated = @ - 1,
                        !.destroyed = @ + 1],
                    "timerAnimated", FALSE)

InitSubview ==
    /\ InitAggregator(0)
    /\ \E ios \in BOOLEAN : InitWebview(MacHandlers, ios)
    /\ InitViews

NextSubview ==
    \/ SlidingSubview
    \/ closeClicked
    \/ popstate
    \/ timerImmediate
    \/ timerClearing
    \/ timerAnimated

\* a timer that is due fires
SpecSubview ==
    /\ InitSubview
    /\ [][NextSubview]_vars
    /\ WF_vars(timerImmediate)
    /\ WF_vars(timerClearing)
    /\ WF_vars(timerAnimated)

(***************************************************************************)
(* The email protection model: its constructor and refreshAlias, whose     *)
(* then-callback takes the reply of the 'refreshAlias' message.            *)
(***************************************************************************)
Aliases == {Undefined, JSNull, JSString(""), JSString("a@duck.com")}

UserData ==
    {Undefined, JSNull} \cup {JSObject([nextAlias |-> a]) : a \in Aliases}

\* what the Site view and other callers may pass to the constructor
Attrs ==
    {Undefined, JSObject(EmptyObject)}
        \cup {JSObject([emailProtectionUserData |-> u]) : u \in UserData}

\* replies to the 'refreshAlias' message
Responses ==
    { JSObject([privateAddress |-> JSString("b@duck.com")]),
      JSObject([privateAddress |-> JSString("c@duck.com")]),
      JSObject([privateAddress |-> JSNull]),
      JSObject([privateAddress |-> JSNumber(1)]),
      JSObject(EmptyObject) }

\* object?.key: undefined on undefined and null, the property otherwise
OptionalMember(object, key) ==
    IF object.type \in {"undefined", "null"}
      THEN Undefined
      ELSE IF key \in DOMAIN object.val THEN object.val[key] ELSE Undefined

ModelEvent(m, op, resp, threw) ==
    /\ emailProtection' =
          [m EXCEPT !.last = [op |-> op, resp |-> resp, threw |-> threw]]
    /\ UNCHANGED <<core, bridge, siteView, slidingSubview>>

\* _setup ()
_setup(m) ==
    IF Truthy(OptionalMember(m.emailProtectionUserData, "nextAlias"))
      THEN [m EXCEPT !.state = "idle"]
      ELSE m

\* function EmailProtectionModel (attrs)
EmailProtectionModel(attrs) ==
    /\ emailProtection.constructed = "no"
    /\ LET given == IF Truthy(attrs) THEN attrs ELSE JSObject(EmptyObject)
       IN  IF "emailProtectionUserData" \notin DOMAIN given.val
             THEN ModelEvent([emailProtection EXCEPT
                                 !.constructed = "threw",
                                 !.attrs = attrs],
                             "EmailProtectionModel", Undefined, TRUE)
             ELSE ModelEvent(
                    _setup([emailProtection EXCEPT
                               !.constructed = "built",
                               !.attrs = attrs,
                               !.emailProtectionUserData =
                                   given.val.emailProtectionUserData]),
                    "EmailProtectionModel", Undefined, FALSE)

\* the callback of refreshAlias, with nextAlias = null the only assignment
refreshAlias_clearing(resp) ==
    /\ emailProtection.constructed = "built"
    /\ emailProtection.refreshes < MaxRefreshes
    /\ LET m == [emailProtection EXCEPT !.refreshes = @ + 1]
       IN  IF m.emailProtectionUserData.type \in {"undefined", "null"}
             THEN ModelEvent(m, "refreshAlias", resp, TRUE)
             ELSE ModelEvent(
                    [m EXCEPT !.emailProtectionUserData.val.nextAlias =
                                  JSNull],
                    "refreshAlias", resp, FALSE)

\* refreshAlias: function (), with the reply its then-callback receives
refreshAlias(resp) ==
    /\ emailProtection.constructed = "built"
    /\ emailProtection.refreshes < MaxRefreshes
    /\ LET m == [emailProtection EXCEPT !.refreshes = @ + 1]
           privateAddress == OptionalMember(resp, "privateAddress")
       IN  IF m.emailProtectionUserData.type \in {"undefined", "null"}
             THEN \* the assignment to a property of null throws
                  ModelEvent(m, "refreshAlias", resp, TRUE)
             ELSE ModelEvent(
                    [m EXCEPT !.emailProtectionUserData.val.nextAlias =
                                  IF typeof(privateAddress) = "string"
                                    THEN privateAddress
                                    ELSE JSNull],
                    "refreshAlias", resp, FALSE)

NextEmail ==
    \/ \E attrs \in Attrs : EmailProtectionModel(attrs)
    \/ \E resp \in Responses : refreshAlias(resp)

SpecEmail == Init /\ [][NextEmail]_vars

(***************************************************************************)
(* Properties                                                              *)
(***************************************************************************)
ValidatedEntryPoints ==
    {"onChangeRequestData", "onChangeProtectionStatus", "onChangeLocale",
     "onChangeConsentManaged"}


\* C1: every promise returned by getBackgroundTabData that has been resolved
\* was resolved with a snapshot built while trackerBlockingData, protections,
\* upgradedHttps (boolean) and locale (string) were all set.
C1_ReadinessGateSafety ==
    \A i \in Fulfilled : promises[i].ready

\* C2: whenever the four required fields are all set, every promise that was
\* queued before readiness has been resolved: the update that set the last of
\* the four resolved it, whichever field that was.
C2_ReadinessGateProgress ==
    isReady =>
        \A i \in Range(getBackgroundTabDataPromises) :
            promises[i].state = "fulfilled"

\* C3: a call that invokes queued resolvers invokes only resolvers that have
\* not fired before, and leaves the pending queue empty.
C3_FireOnceAndDrain ==
    [][ /\ \A i \in Range(invoked') : promises[i].state = "pending"
        /\ (invoked' /= << >> => getBackgroundTabDataPromises' = << >>)
      ]_vars

\* C4: onChangeRequestData with a valid payload while protections is not set
\* throws, changes no aggregator variable, resolves no waiter and sends no
\* updateTabData.
C4_PreconditionEnforcement ==
    [][ ( /\ lastCall'.op = "onChangeRequestData"
          /\ lastCall'.success
          /\ ~Truthy(protections) )
        => ( /\ lastCall'.threw
             /\ aggregator' = aggregator
             /\ promises' = promises
             /\ invoked' = << >>
             /\ sent' = 0 )
      ]_vars

C4_Witness ==
    /\ lastCall.op = "onChangeRequestData"
    /\ lastCall.success
    /\ lastCall.threw
    /\ ~Truthy(protections)
    /\ typeof(locale) = "string"
    /\ typeof(upgradedHttps) = "boolean"
    /\ getBackgroundTabDataPromises /= << >>
    /\ channel /= Null

\* C5: a call of a schema-validated entry point whose payload fails
\* validation changes no aggregator variable, resolves no pending waiter and
\* sends no updateTabData.
C5_ValidationFailureDropsUpdate ==
    [][ ( /\ lastCall'.op \in ValidatedEntryPoints
          /\ ~lastCall'.success )
        => ( /\ aggregator' = aggregator
             /\ promises' = promises
             /\ invoked' = << >>
             /\ sent' = 0 )
      ]_vars

C5_Witness ==
    /\ lastCall.op = "onChangeLocale"
    /\ ~lastCall.success
    /\ channel /= Null
    /\ typeof(trackerBlockingData) = "object"
    /\ typeof(upgradedHttps) = "boolean"
    /\ typeof(locale) = "undefined"
    /\ \E i \in Range(getBackgroundTabDataPromises) :
            promises[i].state = "pending"

\* C6: a call of a schema-validated entry point whose payload fails
\* validation returns normally; it never throws.
C6_ValidationFailureNeverThrows ==
    ( /\ lastCall.op \in ValidatedEntryPoints
      /\ ~lastCall.success )
    => ~lastCall.threw

\* C7: what the holder of a resolved snapshot reads from it is what the
\* snapshot contained when it was handed over, whatever updates came later.
C7_SnapshotImmutability ==
    \A i \in Fulfilled :
        Content(promises[i].value) = promises[i].delivered

\* C8: a combined snapshot that carries a protections entry carries the
\* latest valid protections value, never an earlier one.
C8_ProtectionsReplace ==
    "protections" \in DOMAIN combineSources.tab
        => combineSources.tab.protections = protections

ConsentKeys == UNION {DOMAIN consentLog[i] : i \in DOMAIN consentLog}

LatestConsent(k) ==
    LET with == {i \in DOMAIN consentLog : k \in DOMAIN consentLog[i]}
        last == CHOOSE i \in with : \A j \in with : j <= i
    IN  consentLog[last][k]

\* C9: snapshot.tab.cookiePromptManagementStatus maps each key of any valid
\* consent update to the value of the latest update containing the key (for
\* two updates with disjoint keys, the union of both); consentLog grows only
\* in onChangeConsentManaged, so no other update changes the entry.
C9_ConsentMerge ==
    LET status == Content(combineSources).tab.cookiePromptManagementStatus.val
    IN  /\ DOMAIN status = ConsentKeys
        /\ \A k \in ConsentKeys : status[k] = LatestConsent(k)

C9_Witness ==
    /\ Len(consentLog) = 2
    /\ DOMAIN consentLog[1] \cap DOMAIN consentLog[2] = {}
    /\ DOMAIN cookiePromptManagementStatus =
            DOMAIN consentLog[1] \cup DOMAIN consentLog[2]
    /\ lastCall.op = "onChangeConsentManaged"

SameExceptUpgradedHttps(a, b) ==
    /\ DOMAIN a.val = DOMAIN b.val
    /\ \A k \in DOMAIN a.val \ {"upgradedHttps"} : a.val[k] = b.val[k]

\* C10: right after a request-data delivery the derived trackerBlockingData
\* records the latest upgradedHttps and protections; and if the delivery
\* before it had the same tab URL and payload under the same protections, the
\* two derived values differ at most in the recorded upgradedHttps.
C10_DependencyRecompute ==
    ( /\ lastCall.op = "onChangeRequestData"
      /\ lastCall.success
      /\ ~lastCall.threw )
    => /\ lastDelivery.made
       /\ lastDelivery.derived = trackerBlockingData
       /\ lastDelivery.derived.val.upgradedHttps = upgradedHttps
       /\ lastDelivery.derived.val.protections = protections
       /\ ( /\ prevDelivery.made
            /\ prevDelivery.tabUrl = lastDelivery.tabUrl
            /\ prevDelivery.data = lastDelivery.data
            /\ prevDelivery.protections = lastDelivery.protections )
          => SameExceptUpgradedHttps(prevDelivery.derived,
                                     lastDelivery.derived)

C10_Witness ==
    /\ lastCall.op = "onChangeRequestData"
    /\ lastCall.success
    /\ ~lastCall.threw
    /\ prevDelivery.made
    /\ prevDelivery.tabUrl = lastDelivery.tabUrl
    /\ prevDelivery.data = lastDelivery.data
    /\ prevDelivery.protections = lastDelivery.protections
    /\ prevDelivery.derived.val.upgradedHttps
            /= lastDelivery.derived.val.upgradedHttps

\* C11: whenever trackerBlockingData is set, the combined snapshot's
\* upgradedHttps is the most recently delivered upgradedHttps value and its
\* locale is the locale of the most recent valid onChangeLocale call.
C11_SnapshotLatestValues ==
    Truthy(trackerBlockingData)
        => /\ combineSources.tab.upgradedHttps = upgradedHttps
           /\ combineSources.tab.locale = locale

C11_Witness ==
    /\ lastCall.op = "onChangeUpgradedHttps"
    /\ isReady
    /\ lastDelivery.derived.val.upgradedHttps /= upgradedHttps
    /\ combineSources.tab.locale = JSString("en")
    /\ combineSources.tab.upgradedHttps = JSBool(FALSE)

LastPromise == promises[Len(promises)]

\* C12: two getBackgroundTabData calls with no field update in between, both
\* resolved at once, hand over snapshots with identical content, and
\* combineSources yields the same content before and after.
C12_IdempotentCombine ==
    [][ ( /\ lastCall.op = "getBackgroundTabData"
          /\ lastCall'.op = "getBackgroundTabData"
          /\ LastPromise.state = "fulfilled"
          /\ LastPromise'.state = "fulfilled" )
        => ( /\ LastPromise'.delivered = LastPromise.delivered
             /\ Content(combineSources)' = Content(combineSources) )
      ]_vars

C12_Witness ==
    /\ lastCall.op = "getBackgroundTabData"
    /\ calls = 6
    /\ Len(promises) = 2
    /\ getBackgroundTabDataPromises = << >>
    /\ promises[1].state = "fulfilled"
    /\ promises[1].ready
    /\ promises[2].state = "fulfilled"
    /\ promises[2].delivered = promises[1].delivered

\* the content carries the current value of every field
ReflectsCurrentFields(content) ==
    /\ content.tab.upgradedHttps = upgradedHttps
    /\ content.tab.protections = protections
    /\ content.tab.locale = locale
    /\ content.tab.url = trackerBlockingData.val.url
    /\ content.tab.requestDetails = trackerBlockingData.val.requestDetails
    /\ content.tab.isPendingUpdates = isPendingUpdates
    /\ content.tab.parentEntity = parentEntity
    /\ content.tab.cookiePromptManagementStatus =
            JSObject(cookiePromptManagementStatus)
    /\ IF Truthy(permissionsData)
         THEN content.tab.permissions = permissionsData
         ELSE "permissions" \notin DOMAIN content.tab
    /\ IF Truthy(certificateData)
         THEN content.tab.certificate = certificateData
         ELSE "certificate" \notin DOMAIN content.tab

\* C13: a getBackgroundTabData call made after readiness is resolved by the
\* call itself, with a snapshot that carries the value every field has at the
\* call.
C13_WaitAfterReadiness ==
    (lastCall.op = "getBackgroundTabData" /\ isReady)
        => /\ LastPromise.state = "fulfilled"
           /\ ReflectsCurrentFields(LastPromise.delivered)

UpdateEntryPoints ==
    {"onChangeRequestData", "onChangeProtectionStatus",
     "onChangeUpgradedHttps", "onChangeLocale", "onChangeAllowedPermissions",
     "onChangeCertificateData", "onIsPendingUpdates", "onChangeParentEntity",
     "onChangeConsentManaged"}

\* C14: with a channel registered, every successful field update sends an
\* updateTabData notification, before readiness as well as after.
C14_NotificationOnEveryChange ==
    ( /\ channel /= Null
      /\ lastCall.op \in UpdateEntryPoints
      /\ lastCall.success
      /\ ~lastCall.threw )
    => sent >= 1

\* C15: after readiness, with a channel registered, a successful field update
\* sends exactly one updateTabData and leaves every resolved promise as it
\* was.
C15_ExactlyOneNotification ==
    [][ ( /\ isReady
          /\ channel /= Null
          /\ lastCall'.op \in UpdateEntryPoints
          /\ lastCall'.success
          /\ ~lastCall'.threw )
        => ( /\ sent' = 1
             /\ \A i \in Fulfilled : promises'[i] = promises[i] )
      ]_vars

C15_Witness ==
    /\ isReady
    /\ channel /= Null
    /\ lastCall.op = "onChangeAllowedPermissions"
    /\ sent = 1
    /\ \E i \in Range(getBackgroundTabDataPromises) :
            promises[i].state = "fulfilled"

CanPost(handler) ==
    messageHandlers.present /\ handler \in messageHandlers.handlers

FetchOf(kinds) == bridgeCall.op = "fetch" /\ bridgeCall.arg.kind \in kinds

Allowlisted(lists) == SelectSeq(lists, LAMBDA item : item.list = "allowlisted")

\* C16: a fetch of a SetListsMessage posts, for its allowlisted items in
\* order, SetProtection messages whose isProtected is the opposite of the
\* item's value and whose eventOrigin is the message's own.
C16_IntentTranslation ==
    FetchOf({"SetListsMessage"}) /\ CanPost("privacyDashboardSetProtection")
        => LET items == Allowlisted(bridgeCall.arg.lists)
           IN  /\ Len(posted) = Len(items)
               /\ \A i \in DOMAIN posted :
                    /\ posted[i].handler = "privacyDashboardSetProtection"
                    /\ posted[i].payload.isProtected = ~items[i].value
                    /\ posted[i].payload.eventOrigin =
                            bridgeCall.arg.eventOrigin

C16_Witness ==
    /\ FetchOf({"SetListsMessage"})
    /\ bridgeCall.arg.lists = << [list |-> "allowlisted", value |-> TRUE],
                                 [list |-> "allowlisted", value |-> FALSE] >>
    /\ bridgeCall.arg.eventOrigin = [screen |-> "breakageForm"]
    /\ Len(posted) = 2
    /\ posted[1].payload.isProtected = FALSE
    /\ posted[2].payload.isProtected = TRUE

SingleCallIntents ==
    {"CloseMessage", "SubmitBrokenSiteReportMessage", "OpenSettingsMessages",
     "UpdatePermissionMessage", "FetchToggleReportOptions",
     "SendToggleBreakageReport", "RejectToggleBreakageReport", "SeeWhatIsSent"}

HandlerOf(kind) ==
    CASE kind = "CloseMessage" -> "privacyDashboardClose"
      [] kind = "SubmitBrokenSiteReportMessage" ->
            "privacyDashboardSubmitBrokenSiteReport"
      [] kind = "OpenSettingsMessages" -> "privacyDashboardOpenSettings"
      [] kind = "UpdatePermissionMessage" -> "privacyDashboardSetPermission"
      [] kind = "FetchToggleReportOptions" ->
            "privacyDashboardGetToggleReportOptions"
      [] kind = "SendToggleBreakageReport" ->
            "privacyDashboardSendToggleReport"
      [] kind = "RejectToggleBreakageReport" ->
            "privacyDashboardRejectToggleReport"
      [] kind = "SeeWhatIsSent" -> "privacyDashboardSeeWhatIsSent"

PayloadOf(message) ==
    CASE message.kind = "CloseMessage" ->
            [eventOrigin |-> message.eventOrigin]
      [] message.kind = "SubmitBrokenSiteReportMessage" ->
            [category |-> message.category,
             description |-> message.description]
      [] message.kind = "OpenSettingsMessages" -> [target |-> message.target]
      [] message.kind = "UpdatePermissionMessage" ->
            [permission |-> message.id, value |-> message.value]
      [] OTHER -> EmptyObject

\* C17: a fetch of one of the eight single-call intents, on a webview that
\* exposes the intent's handler, posts exactly one message, to that handler,
\* with the payload of the intent table.
C17_OneCallPerIntent ==
    /\ FetchOf(SingleCallIntents)
    /\ CanPost(HandlerOf(bridgeCall.arg.kind))
    => posted = << [handler |-> HandlerOf(bridgeCall.arg.kind),
                    payload |-> PayloadOf(bridgeCall.arg)] >>

C17_Witness ==
    /\ FetchOf({"SubmitBrokenSiteReportMessage"})
    /\ bridgeCall.arg.description = "details"
    /\ bridgeCall.outcome = "fulfilled"
    /\ Len(posted) = 1
    /\ posted[1].handler = "privacyDashboardSubmitBrokenSiteReport"

Replying == bridgeCall'.op = "onGetToggleReportOptionsResponse"

Requesting ==
    \/ bridgeCall'.op = "privacyDashboardGetToggleReportOptions"
    \/ /\ bridgeCall'.op = "fetch"
       /\ bridgeCall'.arg.kind = "FetchToggleReportOptions"

\* C18: a request that is posted registers the reply handler; a host reply
\* that finds the handler fulfils that request with the reply's data and
\* removes the handler; a reply that finds none is not consumed; a settled
\* request never changes again; the handler is registered exactly while the
\* latest request is unanswered.
C18_AtMostOneReplyConsumption ==
    [][ LET handler == onGetToggleReportOptionsResponse
            n == Len(toggleRequests')
        IN
        /\ Requesting /\ bridgeCall'.outcome = "pending"
            => onGetToggleReportOptionsResponse' = n
        /\ Replying /\ handler /= 0
            => /\ toggleRequests'[handler].state = "fulfilled"
               /\ toggleRequests'[handler].value = bridgeCall'.arg.raw
               /\ onGetToggleReportOptionsResponse' = 0
        /\ Replying /\ handler = 0 => toggleRequests' = toggleRequests
        /\ \A i \in DOMAIN toggleRequests :
                toggleRequests[i].state /= "pending"
                    => /\ toggleRequests'[i].state = toggleRequests[i].state
                       /\ toggleRequests'[i].value = toggleRequests[i].value
        /\ n > 0 => ( onGetToggleReportOptionsResponse' = n
                        <=> toggleRequests'[n].state = "pending" )
        /\ onGetToggleReportOptionsResponse' \in {0, n}
      ]_vars

C18_Witness ==
    /\ bridgeCall.op = "onGetToggleReportOptionsResponse"
    /\ bridgeCall.outcome = "threw"
    /\ Len(toggleRequests) = 1
    /\ toggleRequests[1].state = "fulfilled"
    /\ toggleRequests[1].value /= bridgeCall.arg.raw
    /\ onGetToggleReportOptionsResponse = 0

\* C19: in every step that is not a host reply, a pending request, and the
\* fetch that made it, stay pending.
C19_ReplyNeverArrives ==
    [][ ~Replying
            => \A i \in DOMAIN toggleRequests :
                    toggleRequests[i].state = "pending"
                        => toggleRequests'[i] = toggleRequests[i] ]_vars

C19_Witness ==
    /\ Len(toggleRequests) = 2
    /\ toggleRequests[1] = ToggleRequest("pending", TRUE)
    /\ toggleRequests[2] = ToggleRequest("pending", FALSE)
    /\ bridgeCall.op = "privacyDashboardSetSize"

SizeReport == bridgeCall.op \in {"privacyDashboardSetSize", "firstRenderComplete"}

\* C20: on iOS a size report posts nothing and does not throw, whatever the
\* webview exposes; elsewhere, with the SetSize handler exposed, the mutation
\* observer posts exactly one SetSize message with its height, and
\* firstRenderComplete does so when the content height is a number and posts
\* nothing when it is not.
C20_SetSizeSuppression ==
    SizeReport
        => /\ isIOS => posted = << >> /\ bridgeCall.outcome = "returned"
           /\ typeof(bridgeCall.arg) /= "number"
                => posted = << >> /\ bridgeCall.outcome = "returned"
           /\ ( /\ ~isIOS
                /\ CanPost("privacyDashboardSetSize")
                /\ typeof(bridgeCall.arg) = "number" )
                => posted = << [handler |-> "privacyDashboardSetSize",
                                payload |-> [height |-> bridgeCall.arg]] >>

C20_Witness ==
    /\ isIOS
    /\ ~messageHandlers.present
    /\ bridgeCall.op = "firstRenderComplete"
    /\ typeof(bridgeCall.arg) = "number"
    /\ bridgeCall.outcome = "returned"
    /\ posted = << >>

\* the last bridge call asked for an outbound intent
IntentCall ==
    \/ FetchOf(SingleCallIntents)
    \/ /\ FetchOf({"SetListsMessage"})
       /\ Allowlisted(bridgeCall.arg.lists) /= << >>
    \/ bridgeCall.op \in {"privacyDashboardGetToggleReportOptions",
                          "privacyDashboardOpenUrlInNewTab"}
    \/ /\ SizeReport
       /\ typeof(bridgeCall.arg) = "number"
       /\ ~isIOS

\* C21: without window.webkit.messageHandlers every outbound intent other
\* than a size report on iOS ends in a throw or a rejected promise and posts
\* nothing, and a toggle-report request registers no reply handler.
C21_TransportUnavailable ==
    (~messageHandlers.present /\ IntentCall)
        => /\ bridgeCall.outcome \in {"threw", "rejected"}
           /\ posted = << >>
           /\ onGetToggleReportOptionsResponse = 0

C21_Witness ==
    /\ ~messageHandlers.present
    /\ bridgeCall.op = "privacyDashboardGetToggleReportOptions"
    /\ bridgeCall.outcome = "rejected"
    /\ Len(toggleRequests) = 2
    /\ toggleRequests[1].viaFetch
    /\ toggleRequests[1].fetched.state = "rejected"
    /\ onGetToggleReportOptionsResponse = 0

\* the content carries what the last call, a successful update, delivered
IncludesUpdate(content) ==
    CASE lastCall.op = "onChangeRequestData" ->
            /\ content.tab.url = JSString(lastDelivery.tabUrl)
            /\ content.tab.requestDetails = JSObject(lastDelivery.data)
      [] lastCall.op = "onChangeProtectionStatus" ->
            content.tab.protections = protections
      [] lastCall.op = "onChangeUpgradedHttps" ->
            content.tab.upgradedHttps = upgradedHttps
      [] lastCall.op = "onChangeLocale" -> content.tab.locale = locale
      [] lastCall.op = "onChangeAllowedPermissions" ->
            IF Truthy(permissionsData)
                THEN content.tab.permissions = permissionsData
                ELSE "permissions" \notin DOMAIN content.tab
      [] lastCall.op = "onChangeCertificateData" ->
            IF Truthy(certificateData)
                THEN content.tab.certificate = certificateData
                ELSE "certificate" \notin DOMAIN content.tab
      [] lastCall.op = "onIsPendingUpdates" ->
            content.tab.isPendingUpdates = isPendingUpdates
      [] lastCall.op = "onChangeParentEntity" ->
            content.tab.parentEntity = parentEntity
      [] lastCall.op = "onChangeConsentManaged" ->
            content.tab.cookiePromptManagementStatus =
                JSObject(cookiePromptManagementStatus)

\* C22: in a successful field update, the snapshot handed to each waiter the
\* update resolves, and the snapshot a subscriber reads on the update's
\* updateTabData notification, carry the value the update delivered.
C22_CommitBeforeNotify ==
    [][ ( /\ lastCall'.op \in UpdateEntryPoints
          /\ lastCall'.success
          /\ ~lastCall'.threw )
        => /\ \A i \in DOMAIN promises :
                ( /\ promises[i].state = "pending"
                  /\ promises'[i].state = "fulfilled" )
                => IncludesUpdate(promises[i].delivered)'
           /\ sent' >= 1 => IncludesUpdate(Content(combineSources))'
      ]_vars

\* C23: the then-callback of a getBackgroundTabData promise runs only in a
\* step of its own, on a promise an earlier call has fulfilled: never in the
\* field update that resolves the promise, nor in the getBackgroundTabData
\* call that resolves it at once.
C23_NoSynchronousReentrancy ==
    [][ \A i \in continued' \ continued :
            /\ i \in Fulfilled
            /\ promises' = promises
            /\ aggregator' = aggregator
            /\ calls' = calls
      ]_vars

C23_Witness ==
    /\ continued = {1, 2}
    /\ promises[1].ready
    /\ getBackgroundTabDataPromises = << 1 >>
    /\ lastCall.op = "getBackgroundTabData"

InCallOrder(resolvers) ==
    \A a, b \in DOMAIN resolvers : a < b => resolvers[a] < resolvers[b]

\* C24: the update that satisfies the readiness gate while several waiters
\* are queued invokes the resolvers of all of them, in the order of their
\* getBackgroundTabData calls, and every one of them is fulfilled when the
\* update's notification is observed.
C24_FifoDrain ==
    [][ ( /\ ~isReady
          /\ isReady'
          /\ Len(getBackgroundTabDataPromises) >= 2 )
        => ( /\ invoked' = getBackgroundTabDataPromises
             /\ InCallOrder(invoked')
             /\ \A i \in Range(invoked') : promises'[i].state = "fulfilled" )
      ]_vars

OverlayEntryPoints ==
    {"onChangeAllowedPermissions", "onChangeCertificateData",
     "onIsPendingUpdates", "onChangeParentEntity", "onChangeConsentManaged"}

\* C25: a successful update of permissions, certificate, pending updates, parent entity
\* or consent data leaves trackerBlockingData, protections, upgradedHttps,
\* locale and the pending queue unchanged, resolves no waiter and invokes no
\* resolver, changes no overlay field but its own, and sends exactly one
\* updateTabData to the registered channel.
C25_OverlaysLeaveGateAlone ==
    [][ (lastCall'.op \in OverlayEntryPoints /\ lastCall'.success)
        => ( /\ UNCHANGED <<trackerBlockingData, protections, upgradedHttps,
                            locale, getBackgroundTabDataPromises, promises>>
             /\ invoked' = << >>
             /\ lastCall'.op /= "onChangeAllowedPermissions"
                    => UNCHANGED permissionsData
             /\ lastCall'.op /= "onChangeCertificateData"
                    => UNCHANGED certificateData
             /\ lastCall'.op /= "onIsPendingUpdates"
                    => UNCHANGED isPendingUpdates
             /\ lastCall'.op /= "onChangeParentEntity"
                    => UNCHANGED parentEntity
             /\ lastCall'.op /= "onChangeConsentManaged"
                    => UNCHANGED cookiePromptManagementStatus
             /\ sent' = IF channel /= Null THEN 1 ELSE 0 )
      ]_vars

C25_Witness ==
    /\ lastCall.op = "onChangeAllowedPermissions"
    /\ isReady
    /\ channel /= Null
    /\ sent = 1
    /\ Truthy(permissionsData)
    /\ \E i \in Range(getBackgroundTabDataPromises) :
            promises[i].state = "pending"

\* C26: each of the four required fields, once set, stays set in every later
\* step, so the readiness gate, once satisfied, stays satisfied.
C26_ReadinessMonotonic ==
    [][ /\ typeof(trackerBlockingData) = "object"
            => typeof(trackerBlockingData') = "object"
        /\ typeof(protections) /= "undefined"
            => typeof(protections') /= "undefined"
        /\ typeof(upgradedHttps) = "boolean"
            => typeof(upgradedHttps') = "boolean"
        /\ typeof(locale) = "string" => typeof(locale') = "string"
        /\ isReady => isReady'
      ]_vars

C26_Witness ==
    /\ isReady
    /\ calls = MaxCalls
    /\ lastCall.op = "onChangeProtectionStatus"
    /\ ~lastCall.success

Absent == [type |-> "absent"]

Entry(key) ==
    IF key \in DOMAIN combineSources.tab THEN combineSources.tab[key]
                                         ELSE Absent

IfTruthy(value) == IF Truthy(value) THEN value ELSE Absent

\* C27: the snapshot has a permissions entry exactly if the value of the
\* most recent onChangeAllowedPermissions call is truthy, and a certificate
\* entry exactly if the secCertificateViewModels of the most recent
\* onChangeCertificateData payload is truthy; an entry that is present is that
\* value; no other call changes what the two entries are taken from.
C27_ConditionalPresence ==
    /\ [] ( /\ Entry("permissions") = IfTruthy(permissionsData)
            /\ Entry("certificate") = IfTruthy(certificateData)
            /\ lastCall.op = "onChangeAllowedPermissions"
                    => permissionsData = lastCall.data
            /\ lastCall.op = "onChangeCertificateData"
                    => certificateData = lastCall.data.secCertificateViewModels )
    /\ [][ /\ lastCall'.op /= "onChangeAllowedPermissions"
                    => permissionsData' = permissionsData
           /\ lastCall'.op /= "onChangeCertificateData"
                    => certificateData' = certificateData
         ]_vars

C27_Witness ==
    /\ lastCall.op = "onChangeAllowedPermissions"
    /\ ~Truthy(lastCall.data)
    /\ Truthy(trackerBlockingData)
    /\ "permissions" \notin DOMAIN combineSources.tab
    /\ "certificate" \in DOMAIN combineSources.tab
    /\ combineSources.tab.certificate = JSObject("cert")

\* C28: a request made while an earlier one is unanswered takes over the
\* reply handler; a reply settles the request that holds the handler and no
\* other, and leaves no handler; a pending request that does not hold the
\* handler stays pending in every step.
C28_ConcurrentRequests ==
    [][ LET handler == onGetToggleReportOptionsResponse
        IN
        /\ ( /\ Requesting
             /\ bridgeCall'.outcome = "pending"
             /\ handler /= 0 )
            => /\ onGetToggleReportOptionsResponse' = handler + 1
               /\ toggleRequests'[handler].state = "pending"
        /\ (Replying /\ handler /= 0)
            => /\ toggleRequests'[handler].state = "fulfilled"
               /\ \A i \in DOMAIN toggleRequests \ {handler} :
                        toggleRequests'[i] = toggleRequests[i]
               /\ onGetToggleReportOptionsResponse' = 0
        /\ \A i \in DOMAIN toggleRequests :
                (toggleRequests[i].state = "pending" /\ i /= handler)
                    => toggleRequests'[i] = toggleRequests[i]
      ]_vars

C28_Witness ==
    /\ Len(toggleRequests) = 2
    /\ toggleRequests[1].state = "pending"
    /\ toggleRequests[2].state = "fulfilled"
    /\ onGetToggleReportOptionsResponse = 0
    /\ bridgeCall.op = "onGetToggleReportOptionsResponse"
    /\ bridgeCall.outcome = "threw"

\* C29: a reply that fails toggleReportScreenSchema rejects the fetch that
\* made the request and consumes the reply handler, and a rejected fetch
\* stays rejected whatever reply comes later.
C29_InvalidReply ==
    [][ LET handler == onGetToggleReportOptionsResponse
        IN
        /\ ( /\ Replying
             /\ handler /= 0
             /\ toggleRequests[handler].viaFetch
             /\ ~bridgeCall'.arg.parsed.success )
            => /\ toggleRequests'[handler].fetched.state = "rejected"
               /\ onGetToggleReportOptionsResponse' = 0
        /\ \A i \in DOMAIN toggleRequests :
                toggleRequests[i].fetched.state = "rejected"
                    => toggleRequests'[i].fetched = toggleRequests[i].fetched
      ]_vars

C29_Witness ==
    /\ Len(toggleRequests) = 1
    /\ toggleRequests[1].viaFetch
    /\ toggleRequests[1].value = "bad"
    /\ toggleRequests[1].fetched.state = "rejected"
    /\ bridgeCall.op = "onGetToggleReportOptionsResponse"
    /\ bridgeCall.arg.parsed.success
    /\ bridgeCall.outcome = "threw"

\* C30: while no channel is registered, a field update sends nothing and
\* throws only for request data delivered before protections; a successful
\* update still sets its field, and leaves every queued promise fulfilled
\* when it ends with the gate satisfied; registering the channel sends
\* nothing and resolves nothing.
C30_NoChannel ==
    [][ /\ (channel = Null /\ lastCall'.op \in UpdateEntryPoints)
            => /\ sent' = 0
               /\ lastCall'.threw
                    => ( /\ lastCall'.op = "onChangeRequestData"
                         /\ ~Truthy(protections) )
               /\ (lastCall'.success /\ ~lastCall'.threw)
                    => /\ lastCall'.op = "onChangeRequestData"
                            => typeof(trackerBlockingData') = "object"
                       /\ lastCall'.op = "onChangeProtectionStatus"
                            => typeof(protections') = "object"
                       /\ lastCall'.op = "onChangeUpgradedHttps"
                            => typeof(upgradedHttps') = "boolean"
                       /\ lastCall'.op = "onChangeLocale"
                            => typeof(locale') = "string"
                       /\ lastCall'.op = "onChangeAllowedPermissions"
                            => permissionsData' = lastCall'.data
                       /\ isReady'
                            => \A i \in Range(getBackgroundTabDataPromises') :
                                    promises'[i].state = "fulfilled"
        /\ lastCall'.op = "backgroundMessage"
            => /\ sent' = 0
               /\ promises' = promises
               /\ invoked' = << >>
      ]_vars

AllowlistedItems(lists) ==
    {i \in DOMAIN lists : lists[i].list = "allowlisted"}

\* C31: a fetch of a SetListsMessage posts only SetProtection messages: with
\* the handler exposed, as many as the list has allowlisted items, the k-th
\* message for the k-th allowlisted item, and the call is fulfilled; with no
\* allowlisted item it posts nothing and is fulfilled whatever the webview
\* exposes.
C31_SetListsFanOut ==
    FetchOf({"SetListsMessage"})
        => LET lists == bridgeCall.arg.lists
               items == Allowlisted(lists)
           IN  /\ \A k \in DOMAIN posted :
                    posted[k].handler = "privacyDashboardSetProtection"
               /\ CanPost("privacyDashboardSetProtection")
                    => /\ Len(posted) = Cardinality(AllowlistedItems(lists))
                       /\ \A k \in DOMAIN posted :
                            posted[k].payload.isProtected = ~items[k].value
                       /\ bridgeCall.outcome = "fulfilled"
               /\ AllowlistedItems(lists) = {}
                    => posted = << >> /\ bridgeCall.outcome = "fulfilled"

C31_Witness ==
    /\ FetchOf({"SetListsMessage"})
    /\ Len(bridgeCall.arg.lists) = MaxListItems
    /\ bridgeCall.arg.lists[1].list = "denylisted"
    /\ AllowlistedItems(bridgeCall.arg.lists) = 2..MaxListItems
    /\ Len(posted) = MaxListItems - 1
    /\ bridgeCall.outcome = "fulfilled"

\* Site view: what a state right after the first paint looks like when the
\* condition "tab status is 'complete' or domain is 'new tab'" decides
PaintedAsStated ==
    siteView.last.op = "firstPaint"
        => IF siteView.tab = "complete" \/ siteView.domain = "new tab"
             THEN /\ siteView.rendered = 1
                  /\ siteView.setups = 1
                  /\ siteView.scheduled = 0
             ELSE /\ siteView.rendered = 1
                  /\ siteView.setups = 0
                  /\ siteView.scheduled = 1
                  /\ siteView.timers = 1

\* C32: the Site view renders only after model.getBackgroundTabData has
\* resolved; with tab status 'complete' or domain 'new tab' the first paint
\* also runs _setup, otherwise it renders and schedules exactly one deferred
\* rerender; after a rejection the view never renders.
C32_SiteFirstPaint ==
    /\ siteView.rendered > 0 => siteView.promise = "fulfilled"
    /\ siteView.promise = "rejected"
         => siteView.rendered = 0 /\ siteView.rerendered = 0
    /\ siteView.rendered <= 1
    /\ siteView.scheduled <= 1
    /\ PaintedAsStated

\* Site view: the step runs rerender
Rerendering == siteView'.last.rerender

\* Site view: the step renders nothing, binds nothing and leaves the body
\* classes alone
NothingRerendered ==
    /\ siteView'.body = siteView.body
    /\ siteView'.rerendered = siteView.rerendered
    /\ siteView'.setups = siteView.setups
    /\ siteView'.unbinds = siteView.unbinds

\* C33: rerender does nothing while the body has 'confirmation-active';
\* with a disabled model only the rerender that finds no 'is-disabled'
\* re-renders and sets the class, every further one is a no-op; with a model
\* that is not disabled each rerender removes 'is-disabled', unbinds,
\* re-renders and runs _setup.  While 'is-disabled' is set
\* model.toggleAllowlist is not called and no sliding subview is opened.
C33_RerenderGuards ==
    [][ /\ Rerendering /\ "confirmation-active" \in siteView.body
            => NothingRerendered
        /\ Rerendering /\ "confirmation-active" \notin siteView.body
                       /\ siteView'.disabled
            => IF "is-disabled" \in siteView.body
                 THEN NothingRerendered
                 ELSE /\ siteView'.body = siteView.body \cup {"is-disabled"}
                      /\ siteView'.rerendered = siteView.rerendered + 1
                      /\ siteView'.setups = siteView.setups + 1
                      /\ siteView'.unbinds = siteView.unbinds
        /\ Rerendering /\ "confirmation-active" \notin siteView.body
                       /\ ~siteView'.disabled
            => /\ siteView'.body = siteView.body \ {"is-disabled"}
               /\ siteView'.unbinds = siteView.unbinds + 1
               /\ siteView'.rerendered = siteView.rerendered + 1
               /\ siteView'.setups = siteView.setups + 1
        /\ "is-disabled" \in siteView.body
            => /\ siteView'.toggles = siteView.toggles
               /\ siteView'.subviews = siteView.subviews
      ]_vars

\* C34: a subview has at most one popstate handler registered; _destroy
\* removes it, so a popstate event after _destroy starts no second
\* teardown; after _destroy the 'open' parameter is gone; every _destroy
\* gets exactly one destroy(), and on both paths the root eventually loses
\* 'sliding-subview--open' and every destroy() has been called.
C34_SubviewTeardown ==
    /\ [] /\ slidingSubview.listeners <= 1
          /\ slidingSubview.teardowns > 0
               => /\ slidingSubview.listeners = 0
                  /\ ~slidingSubview.open
          /\ slidingSubview.destroyed + slidingSubview.immediate
                 + slidingSubview.animated = slidingSubview.teardowns
    /\ [][ slidingSubview.teardowns > 0
              /\ slidingSubview'.last.op = "popstate"
              => slidingSubview'.teardowns = slidingSubview.teardowns ]_vars
    /\ slidingSubview.teardowns > 0
         ~> /\ "sliding-subview--open" \notin slidingSubview.root
            /\ slidingSubview.destroyed = slidingSubview.teardowns

\* a subview closed by back navigation on iOS and then fully torn down,
\* after an earlier subview was closed with the button
C34_Witness ==
    /\ isIOS
    /\ slidingSubview.generation = 2
    /\ slidingSubview.last.op = "timerClearing"
    /\ slidingSubview.teardowns = 1
    /\ slidingSubview.destroyed = 1
    /\ slidingSubview.depth = 1
    /\ slidingSubview.root = {}

\* email protection: the attribute the constructor was given, if any
GivenUserData ==
    OptionalMember(emailProtection.attrs, "emailProtectionUserData")

\* email protection: the constructor was given the attribute
HasUserData ==
    /\ Truthy(emailProtection.attrs)
    /\ "emailProtectionUserData" \in DOMAIN emailProtection.attrs.val

\* C35: the constructor throws exactly when the emailProtectionUserData
\* attribute is missing; a constructed model is 'idle' exactly when the
\* nextAlias it was given is truthy and 'unknown' otherwise, and stays so
\* through every refreshAlias; refreshAlias leaves nextAlias at the reply's
\* privateAddress when that is a string and at null otherwise.
C35_EmailProtectionState ==
    /\ emailProtection.constructed = "threw" => ~HasUserData
    /\ emailProtection.constructed = "built"
         => /\ HasUserData
            /\ emailProtection.state =
                 IF Truthy(OptionalMember(GivenUserData, "nextAlias"))
                   THEN "idle" ELSE "unknown"
    /\ emailProtection.last.op = "refreshAlias"
         /\ typeof(emailProtection.emailProtectionUserData) = "object"
         /\ emailProtection.emailProtectionUserData /= JSNull
         => LET privateAddress ==
                    OptionalMember(emailProtection.last.resp, "privateAddress")
            IN  emailProtection.emailProtectionUserData.val.nextAlias =
                    IF typeof(privateAddress) = "string"
                      THEN privateAddress ELSE JSNull

\* an idle model whose alias was replaced by a reply and then cleared by a
\* reply without a private address
C35_Witness ==
    /\ emailProtection.constructed = "built"
    /\ emailProtection.state = "idle"
    /\ emailProtection.refreshes = 2
    /\ emailProtection.last.op = "refreshAlias"
    /\ emailProtection.last.resp = JSObject(EmptyObject)
    /\ emailProtection.emailProtectionUserData.val.nextAlias = JSNull

====
